---- MODULE Spec2Model ----
(***************************************************************************)
(* Model of the StellarFusion hash-locked escrow factory                   *)
(* (stellar-contracts/escrow-factory/contracts/hello-world/src/lib.rs).    *)
(*                                                                         *)
(* Every contract entry point is one atomic action.  A Soroban invocation  *)
(* that panics rolls back all of its storage writes and token transfers,   *)
(* so a failing call is no step at all: for each entry point f the         *)
(* operator f_error gives the panic message of a call ("ok" when it        *)
(* returns) and is the guard of the action f.                              *)
(***************************************************************************)
EXTENDS Integers, Sequences, FiniteSets, TLC

\* ------------------------------------------------------------------------
\* Program constants
\* ------------------------------------------------------------------------
DEPOSIT_AMOUNT == 1000000

RESCUE_DELAY == 604800

\* public_cancellation_start offset used by create_src_escrow_partial
PARTIAL_PUBLIC_CANCEL_OFFSET == 3600

\* cancellation_start offset used by the order book's fill_order
LOP_CANCEL_OFFSET == 86400

\* ------------------------------------------------------------------------
RESOLVER_PUBLIC_WITHDRAWAL_OFFSET == 1800

\* Bounds of the model
\* ------------------------------------------------------------------------
\* largest window boundary a create call may pass
MaxT == 3

\* largest token_amount a create call may pass
MaxAmount == 1

\* largest value of the escrow counter (number of successful creations)
MaxEscrows == 2

\* largest secret (secrets are the byte strings 1..MaxSecret)
MaxSecret == 2

\* largest number of fills where the segments of an order are counted
MaxFills == 3

\* ------------------------------------------------------------------------
\* Principals
\* ------------------------------------------------------------------------
Factory == "factory"

Parties == {"maker", "resolver", "other"}

\* the limit order protocol (order book) contract
Lop == "lop"

Addresses == Parties \cup {Factory, Lop}

\* escrow references a caller may pass: the one the factory hands out and
\* one it never handed out
EscrowRefs == {Factory, "other"}

NativeToken == "native"

NoEscrow == [exists |-> FALSE]

\* ------------------------------------------------------------------------
\* Hashing.  SHA-256 is modelled as an injective (collision-free) map: a
\* digest is the string of numbers that names what was hashed.  The three
\* shapes of input the contract hashes (a secret, the 40-byte leaf packing,
\* the 64-byte pair) start with different numbers, and digests compare as
\* strings, position by position (BytesN<32> ordering).
\* ------------------------------------------------------------------------
\* env.crypto().sha256(&secret)
Sha256(secret) == <<0, secret>>

hash_pair(a, b) == <<2, Len(a)>> \o a \o b

generate_leaf(index, secret_hash) == <<1, index>> \o secret_hash

RECURSIVE HashLeqFrom(_, _, _)
HashLeqFrom(a, b, i) ==
    IF i > Len(a) THEN TRUE
    ELSE IF i > Len(b) THEN FALSE
    ELSE IF a[i] < b[i] THEN TRUE
    ELSE IF a[i] > b[i] THEN FALSE
    ELSE HashLeqFrom(a, b, i + 1)

\* a <= b on digests
HashLeq(a, b) == HashLeqFrom(a, b, 1)

\* faulty variant: the pair is hashed in the order given, not sorted
RECURSIVE MerkleFoldUnsorted(_, _, _)
MerkleFoldUnsorted(proof, i, computed_hash) ==
    IF i > Len(proof) THEN computed_hash
    ELSE MerkleFoldUnsorted(proof, i + 1, hash_pair(computed_hash, proof[i]))

RECURSIVE MerkleFold(_, _, _)
MerkleFold(proof, i, computed_hash) ==
    IF i > Len(proof) THEN computed_hash
    ELSE LET proof_element == proof[i]
         IN  IF HashLeq(computed_hash, proof_element)
             THEN MerkleFold(proof, i + 1, hash_pair(computed_hash, proof_element))
             ELSE MerkleFold(proof, i + 1, hash_pair(proof_element, computed_hash))

verify_merkle_proof(proof, root, leaf) == MerkleFold(proof, 1, leaf) = root

\* ------------------------------------------------------------------------
\* Building a tree and its proofs (done off the ledger): the leaves are
\* leaf(i, h_i) for the parts i = 0 .. N-1, a parent is the hash of its two
\* children in ascending order, and the proof of a leaf lists the siblings
\* on its path to the root.  N is a power of two.
\* ------------------------------------------------------------------------
SortedPair(a, b) == IF HashLeq(a, b) THEN hash_pair(a, b) ELSE hash_pair(b, a)

TreeLeaves(secret_hashes) ==
    [k \in 1..Len(secret_hashes) |-> generate_leaf(k - 1, secret_hashes[k])]

TreeParents(layer) ==
    [k \in 1..(Len(layer) \div 2) |-> SortedPair(layer[2 * k - 1], layer[2 * k])]

RECURSIVE TreeRoot(_)
TreeRoot(layer) ==
    IF Len(layer) = 1 THEN layer[1] ELSE TreeRoot(TreeParents(layer))

RECURSIVE TreeProof(_, _)
TreeProof(layer, k) ==
    IF Len(layer) = 1 THEN <<>>
    ELSE LET sibling == IF k % 2 = 1 THEN layer[k + 1] ELSE layer[k - 1]
         IN  <<sibling>> \o TreeProof(TreeParents(layer), (k + 1) \div 2)

\* every node of the tree
RECURSIVE TreeNodes(_)
TreeNodes(layer) ==
    {layer[k] : k \in 1..Len(layer)} \cup
        (IF Len(layer) = 1 THEN {} ELSE TreeNodes(TreeParents(layer)))

\* numbers of leaves of the trees that are built
LeafCounts == {1, 2, 4}

\* no verify_merkle_proof call yet
NoCheck == [index |-> 0, secret_hash |-> <<>>, proof |-> <<>>, verified |-> FALSE,
            called |-> FALSE]

\* ------------------------------------------------------------------------
\* Inputs the environment may pass
\* ------------------------------------------------------------------------
\* window boundaries are passed as a start and three gaps, so that equal
\* neighbours (gap 0) exercise the rejected orderings
WindowStarts == 0..(MaxT - 3)

Gaps == {0, 1}

Times == 0..MaxT

Amounts == 0..MaxAmount

Secrets == 1..MaxSecret

\* roles at creation, as in a swap: the resolver creates both escrows; the
\* source escrow locks the maker's funds for the resolver, the destination
\* escrow locks the resolver's funds for the maker.  Any party may call the
\* other entry points.
Creators == {"resolver"}

Buyers == {"maker"}

SrcRecipients == {"resolver"}

DstRecipients == {"maker"}

\* the two leaves of a two-part order: part 0 opens with secret 1, part 1
\* with secret 2
Leaf0 == generate_leaf(0, Sha256(1))

Leaf1 == generate_leaf(1, Sha256(2))

MerkleRoot == IF HashLeq(Leaf0, Leaf1) THEN hash_pair(Leaf0, Leaf1) ELSE hash_pair(Leaf1, Leaf0)

HashLocks == {Sha256(1), MerkleRoot}

\* hashed_secret passed to the full-fill create entry points
FullLocks == {Sha256(1)}

\* <<hashed_secret, part_index, total_parts>> passed to the partial create
\* entry points: a single part, the two parts of the root, a part out of range
PartChoices == {<<Sha256(1), 0, 1>>, <<MerkleRoot, 0, 2>>, <<MerkleRoot, 1, 2>>,
                <<MerkleRoot, 2, 2>>}

Proofs == {<<>>, <<Leaf0>>, <<Leaf1>>}

\* order_hash passed to the order book
OrderHashes == {1, 2}

\* ------------------------------------------------------------------------
\* State
\* ------------------------------------------------------------------------
\* now               env.ledger().timestamp()
\* srcEscrows        persistent DataKey::SourceEscrow(address)
\* dstEscrows        persistent DataKey::DestinationEscrow(address)
\* escrowExists      persistent DataKey::EscrowExists(address)
\* userEscrows       persistent DataKey::UserEscrows(user)
\* escrowCounter     instance DataKey::EscrowCounter
\* allowances        persistent DataKey::TokenAllowance(owner, factory)
\* partialFillsUsed  persistent DataKey::PartialFillsUsed(hashLock, index)
\* partialFillsCount persistent DataKey::PartialFillsCount(hashLock)
\* balances          token contract: balance of each address
\* tokenAllowance    token contract: allowance of each owner to the factory
\* last              the last invocation that returned: arguments, transfers
\* order book (limit-order-protocol):
\* lopAllowances       persistent DataKey::TokenAllowance(owner, order book)
\* partsFilled         persistent DataKey::PartsFilled(orderHash, partIndex)
\* filledOrders        persistent DataKey::FilledOrders(orderHash)
\* filledSegmentsCount persistent DataKey::FilledSegmentsCount(orderHash)
\* userFilledOrders    persistent DataKey::UserFilledOrders(user)
\* Merkle verification on its own:
\* merkleLeaves        the secret hashes a tree was built over, part by part
\* merkleCheck         the last verify_merkle_proof call: arguments, result
VARIABLES merkleLeaves, merkleCheck, now, srcEscrows, dstEscrows, escrowExists, userEscrows, escrowCounter, allowances, partialFillsUsed, partialFillsCount, balances, tokenAllowance, last, lopAllowances, partsFilled, filledOrders, filledSegmentsCount, userFilledOrders

lopVars == <<lopAllowances, partsFilled, filledOrders, filledSegmentsCount,
             userFilledOrders>>

storeVars == <<srcEscrows, dstEscrows, escrowExists, userEscrows, escrowCounter,
               allowances, partialFillsUsed, partialFillsCount, balances,
               tokenAllowance, lopVars>>

merkleVars == <<merkleLeaves, merkleCheck>>

vars == <<merkleVars, now, srcEscrows, dstEscrows, escrowExists, userEscrows, escrowCounter,
          allowances, partialFillsUsed, partialFillsCount, balances,
          tokenAllowance, last, lopVars>>

\* ------------------------------------------------------------------------
\* The token contract (external collaborator): transfer / transfer_from.
\* A token state is [ok, bal, appr, log]; a failed leg clears ok and the
\* whole invocation is then rolled back.
\* ------------------------------------------------------------------------
Token == [ok |-> TRUE, bal |-> balances, appr |-> tokenAllowance, log |-> <<>>]

token_transfer(tok, from, to, amount) ==
    IF ~tok.ok \/ amount < 0 \/ tok.bal[from] < amount
    THEN [tok EXCEPT !.ok = FALSE]
    ELSE [tok EXCEPT !.bal = [@ EXCEPT ![from] = @ - amount, ![to] = @ + amount],
                     !.log = Append(@, [from |-> from, to |-> to, amount |-> amount])]

token_transfer_from(tok, spender, from, to, amount) ==
    IF ~tok.ok \/ amount < 0 \/ tok.bal[from] < amount \/ tok.appr[from] < amount
    THEN [tok EXCEPT !.ok = FALSE]
    ELSE [tok EXCEPT !.bal = [@ EXCEPT ![from] = @ - amount, ![to] = @ + amount],
                     !.appr = [@ EXCEPT ![from] = @ - amount],
                     !.log = Append(@, [from |-> from, to |-> to, amount |-> amount])]

transfer_tokens(tok, token_address, from, to, amount, use_allowance) ==
    IF use_allowance
    THEN token_transfer_from(tok, Factory, from, to, amount)
    ELSE token_transfer(tok, from, to, amount)

\* ------------------------------------------------------------------------
\* Observation of an invocation that returned
\* ------------------------------------------------------------------------
NoCall == [op |-> "none", caller |-> Factory, escrow |-> Factory, secret |-> 0,
           proof |-> <<>>, amount |-> 0, transfers |-> <<>>]

Call(op, caller, escrow, secret, proof) ==
    [op |-> op, caller |-> caller, escrow |-> escrow, secret |-> secret,
     proof |-> proof, amount |-> 0, transfers |-> <<>>]

\* the invocation returns: the token legs are committed with the writes
Commit(call, tok) ==
    /\ last' = [call EXCEPT !.transfers = tok.log]
    /\ balances' = tok.bal
    /\ tokenAllowance' = tok.appr
    /\ UNCHANGED <<now, merkleVars>>

\* the checks of an entry point run in order: the first failure is the panic
OrElse(check, rest) == IF check # "ok" THEN check ELSE rest

\* a party's balance and its approval of the factory at the token contract
InitBalance == 2 * DEPOSIT_AMOUNT + MaxAmount

InitApproval == MaxEscrows * MaxAmount

\* the order book holds the security deposits of all but one of the creations
LopInitBalance == (MaxEscrows - 1) * DEPOSIT_AMOUNT

\* the stores after construction, the order book holding lop_balance and
\* every party having approved the factory for `approval` at the token
InitFunded(lop_balance, approval) ==
    /\ now = 0
    /\ srcEscrows = [a \in Addresses |-> NoEscrow]
    /\ dstEscrows = [a \in Addresses |-> NoEscrow]
    /\ escrowExists = {}
    /\ userEscrows = [p \in Parties |-> <<>>]
    /\ escrowCounter = 0
    /\ allowances = [p \in Parties |-> 0]
    /\ partialFillsUsed = {}
    /\ partialFillsCount = [h \in HashLocks |-> 0]
    /\ balances = [a \in Addresses |->
                       IF a = Factory THEN 0
                       ELSE IF a = Lop THEN lop_balance
                       ELSE InitBalance]
    /\ tokenAllowance = [p \in Parties |-> approval]
    /\ last = NoCall
    /\ lopAllowances = [p \in Parties |-> 0]
    /\ partsFilled = {}
    /\ filledOrders = [o \in OrderHashes |-> <<>>]
    /\ filledSegmentsCount = [o \in OrderHashes |-> 0]
    /\ userFilledOrders = [p \in Parties |-> <<>>]
    /\ merkleLeaves = <<>>
    /\ merkleCheck = NoCheck

Init == InitFunded(LopInitBalance, InitApproval)

\* an order book and a maker funded for MaxFills fills
SegmentsInit == InitFunded(MaxFills * DEPOSIT_AMOUNT, MaxFills * MaxAmount)

\* ------------------------------------------------------------------------
\* Merkle verification on its own: a tree is built over the secret hashes
\* of an order's parts, then verify_merkle_proof is called once with any
\* part index, secret hash and proof against the root of the tree.
\* ------------------------------------------------------------------------
\* proofs that are tried: up to two elements, nodes of the tree or a digest
\* that is none of them
CandidateProofs(layer) ==
    LET elements == TreeNodes(layer) \cup {Sha256(1)}
    IN  {<<>>} \cup {<<a>> : a \in elements}
               \cup {<<a, b>> : a \in elements, b \in elements}

BuildTree ==
    /\ merkleLeaves = <<>>
    /\ \E n \in LeafCounts :
          \E secret_hashes \in [1..n -> {Sha256(secret) : secret \in Secrets}] :
              merkleLeaves' = secret_hashes
    /\ UNCHANGED <<merkleCheck, now, last, storeVars>>

VerifyMerkleProof ==
    /\ merkleLeaves # <<>>
    /\ ~merkleCheck.called
    /\ LET layer == TreeLeaves(merkleLeaves)
           root == TreeRoot(layer)
       IN  \E index \in 0..Len(merkleLeaves), secret \in Secrets,
              proof \in CandidateProofs(layer) :
               merkleCheck' =
                   [index |-> index, secret_hash |-> Sha256(secret),
                    proof |-> proof, called |-> TRUE,
                    verified |-> verify_merkle_proof(proof, root,
                                     generate_leaf(index, Sha256(secret)))]
    /\ UNCHANGED <<merkleLeaves, now, last, storeVars>>

MerkleNext ==
    \/ BuildTree
    \/ VerifyMerkleProof

MerkleSpec == Init /\ [][MerkleNext]_vars

\* ------------------------------------------------------------------------
\* approve / allowance
\* ------------------------------------------------------------------------
allowance(owner, spender) == allowances[owner]

approve(caller, amount) ==
    /\ allowances' = [allowances EXCEPT ![caller] = amount]
    /\ last' = [Call("approve", caller, Factory, 0, <<>>) EXCEPT !.amount = amount]
    /\ UNCHANGED <<now, merkleVars, srcEscrows, dstEscrows, escrowExists, userEscrows,
                   escrowCounter, partialFillsUsed, partialFillsCount,
                   balances, tokenAllowance, lopVars>>

\* ------------------------------------------------------------------------
\* Escrow creation
\* ------------------------------------------------------------------------
SourceEscrowData(creator, recipient, hashed_secret, amount, ws, pws, cs, pcs, part_index, total_parts, is_partial_fill) ==
    [creator |-> creator, recipient |-> recipient,
     hashed_secret |-> hashed_secret, token |-> NativeToken,
     amount |-> amount, security_deposit |-> DEPOSIT_AMOUNT,
     withdrawal_start |-> ws, public_withdrawal_start |-> pws,
     cancellation_start |-> cs, public_cancellation_start |-> pcs,
     funds_withdrawn |-> FALSE, cancelled |-> FALSE,
     part_index |-> part_index, total_parts |-> total_parts,
     is_partial_fill |-> is_partial_fill]

DestinationEscrowData(creator, recipient, hashed_secret, amount, ws, pws, cs, part_index, total_parts, is_partial_fill) ==
    [creator |-> creator, recipient |-> recipient,
     hashed_secret |-> hashed_secret, token |-> NativeToken,
     amount |-> amount, security_deposit |-> DEPOSIT_AMOUNT,
     withdrawal_start |-> ws, public_withdrawal_start |-> pws,
     cancellation_start |-> cs,
     funds_withdrawn |-> FALSE, cancelled |-> FALSE,
     part_index |-> part_index, total_parts |-> total_parts,
     is_partial_fill |-> is_partial_fill]

\* faulty variant: equal cancellation boundaries are accepted
SrcWindowsErrorLastStrict(withdrawal_start, public_withdrawal_start, cancellation_start, public_cancellation_start) ==
    IF \/ public_withdrawal_start <= withdrawal_start
       \/ cancellation_start <= public_withdrawal_start
       \/ public_cancellation_start < cancellation_start
    THEN "Invalid time windows" ELSE "ok"

\* "Validate time windows" of create_src_escrow
SrcWindowsError(withdrawal_start, public_withdrawal_start, cancellation_start, public_cancellation_start) ==
    IF \/ public_withdrawal_start <= withdrawal_start
       \/ cancellation_start <= public_withdrawal_start
       \/ public_cancellation_start <= cancellation_start
    THEN "Invalid time windows" ELSE "ok"

\* "Validate time windows" of the three other create entry points
\* faulty variant: equal window boundaries are let through
WindowsErrorLax(withdrawal_start, public_withdrawal_start, cancellation_start) ==
    IF \/ public_withdrawal_start < withdrawal_start
       \/ cancellation_start < public_withdrawal_start
    THEN "Invalid time windows" ELSE "ok"

WindowsError(withdrawal_start, public_withdrawal_start, cancellation_start) ==
    IF \/ public_withdrawal_start <= withdrawal_start
       \/ cancellation_start <= public_withdrawal_start
    THEN "Invalid time windows" ELSE "ok"

AmountError(token_amount) ==
    IF token_amount <= 0 THEN "Invalid amount" ELSE "ok"

AllowanceError(current_allowance, token_amount) ==
    IF current_allowance < token_amount THEN "Insufficient allowance" ELSE "ok"

\* faulty variant: the outcome of the token calls is ignored
TransferErrorIgnored(tok) == "ok"

\* a failed token call aborts the invocation
TransferError(tok) == IF ~tok.ok THEN "Transfer failed" ELSE "ok"

\* principal pulled from `payer` (through the token allowance when
\* use_allowance), then the security deposit from the creator
CreateTransfers(tok, payer, creator, token_amount, use_allowance) ==
    LET t1 == transfer_tokens(tok, NativeToken, payer, Factory, token_amount,
                              use_allowance)
    IN  transfer_tokens(t1, NativeToken, creator, Factory, DEPOSIT_AMOUNT, FALSE)

create_src_escrow_error(creator, hashed_secret, recipient, buyer, token_amount, withdrawal_start, public_withdrawal_start, cancellation_start, public_cancellation_start) ==
    OrElse(AmountError(token_amount),
        OrElse(SrcWindowsError(withdrawal_start, public_withdrawal_start, cancellation_start, public_cancellation_start),
        OrElse(AllowanceError(allowance(buyer, Factory), token_amount),
        TransferError(CreateTransfers(Token, buyer, creator, token_amount, TRUE)))))

create_src_escrow(creator, hashed_secret, recipient, buyer, token_amount, withdrawal_start, public_withdrawal_start, cancellation_start, public_cancellation_start) ==
    LET current_allowance == allowance(buyer, Factory)
        final_addr == Factory
        escrow_data == SourceEscrowData(buyer, recipient, hashed_secret,
                           token_amount, withdrawal_start,
                           public_withdrawal_start, cancellation_start,
                           public_cancellation_start, 0, 1, FALSE)
    IN  /\ create_src_escrow_error(creator, hashed_secret, recipient, buyer,
               token_amount, withdrawal_start, public_withdrawal_start,
               cancellation_start, public_cancellation_start) = "ok"
        /\ escrowCounter < MaxEscrows
        /\ allowances' = [allowances EXCEPT ![buyer] = current_allowance - token_amount]
        /\ escrowCounter' = escrowCounter + 1
        /\ srcEscrows' = [srcEscrows EXCEPT ![final_addr] = escrow_data]
        /\ escrowExists' = escrowExists \cup {final_addr}
        /\ userEscrows' = [userEscrows EXCEPT ![buyer] = Append(@, final_addr)]
        /\ Commit(Call("create_src_escrow", creator, final_addr, 0, <<>>),
                  CreateTransfers(Token, buyer, creator, token_amount, TRUE))
        /\ UNCHANGED <<dstEscrows, partialFillsUsed, partialFillsCount, lopVars>>

create_dst_escrow_error(creator, hashed_secret, recipient, token_amount, withdrawal_start, public_withdrawal_start, cancellation_start) ==
    OrElse(AmountError(token_amount),
        OrElse(WindowsError(withdrawal_start, public_withdrawal_start, cancellation_start),
        TransferError(CreateTransfers(Token, creator, creator, token_amount, FALSE))))

create_dst_escrow(creator, hashed_secret, recipient, token_amount, withdrawal_start, public_withdrawal_start, cancellation_start) ==
    LET final_addr == Factory
        escrow_data == DestinationEscrowData(creator, recipient, hashed_secret,
                           token_amount, withdrawal_start,
                           public_withdrawal_start, cancellation_start,
                           0, 1, FALSE)
    IN  /\ create_dst_escrow_error(creator, hashed_secret, recipient,
               token_amount, withdrawal_start, public_withdrawal_start,
               cancellation_start) = "ok"
        /\ escrowCounter < MaxEscrows
        /\ escrowCounter' = escrowCounter + 1
        /\ dstEscrows' = [dstEscrows EXCEPT ![final_addr] = escrow_data]
        /\ escrowExists' = escrowExists \cup {final_addr}
        /\ userEscrows' = [userEscrows EXCEPT ![creator] = Append(@, final_addr)]
        /\ Commit(Call("create_dst_escrow", creator, final_addr, 0, <<>>),
                  CreateTransfers(Token, creator, creator, token_amount, FALSE))
        /\ UNCHANGED <<srcEscrows, allowances, partialFillsUsed, partialFillsCount, lopVars>>

PartIndexError(part_index, total_parts) ==
    IF total_parts > 1 /\ part_index >= total_parts
    THEN "Invalid part index" ELSE "ok"

PartUsedError(hashed_secret, part_index, total_parts) ==
    IF total_parts > 1 /\ <<hashed_secret, part_index>> \in partialFillsUsed
    THEN "Part already used" ELSE "ok"

\* allowance consulted by create_src_escrow_partial: the factory's own table
\* when the buyer creates, otherwise assumed sufficient
PartialAllowance(creator, buyer, token_amount) ==
    IF creator = buyer THEN allowance(buyer, Factory) ELSE token_amount

create_src_escrow_partial_error(creator, hashed_secret, recipient, buyer, token_amount, withdrawal_start, public_withdrawal_start, cancellation_start, part_index, total_parts) ==
    OrElse(AmountError(token_amount),
        OrElse(WindowsError(withdrawal_start, public_withdrawal_start, cancellation_start),
        OrElse(PartIndexError(part_index, total_parts),
        OrElse(PartUsedError(hashed_secret, part_index, total_parts),
        OrElse(AllowanceError(PartialAllowance(creator, buyer, token_amount), token_amount),
        TransferError(CreateTransfers(Token, buyer, creator, token_amount, TRUE)))))))

\* the writes and transfers of create_src_escrow_partial; `call` is the
\* invocation they are part of (the factory's own entry point, or the order
\* book's fill_order that calls it)
create_src_escrow_partial_writes(call, creator, hashed_secret, recipient, buyer, token_amount, withdrawal_start, public_withdrawal_start, cancellation_start, part_index, total_parts) ==
    LET is_partial_fill == total_parts > 1
        current_allowance == PartialAllowance(creator, buyer, token_amount)
        final_addr == Factory
        escrow_data == SourceEscrowData(buyer, recipient, hashed_secret,
                           token_amount, withdrawal_start,
                           public_withdrawal_start, cancellation_start,
                           cancellation_start + PARTIAL_PUBLIC_CANCEL_OFFSET,
                           part_index, total_parts, is_partial_fill)
    IN  /\ partialFillsUsed' =
               IF is_partial_fill
               THEN partialFillsUsed \cup {<<hashed_secret, part_index>>}
               ELSE partialFillsUsed
        /\ partialFillsCount' =
               IF is_partial_fill
               THEN [partialFillsCount EXCEPT ![hashed_secret] = @ + 1]
               ELSE partialFillsCount
        /\ allowances' =
               IF creator = buyer
               THEN [allowances EXCEPT ![buyer] = current_allowance - token_amount]
               ELSE allowances
        /\ escrowCounter' = escrowCounter + 1
        /\ srcEscrows' = [srcEscrows EXCEPT ![final_addr] = escrow_data]
        /\ escrowExists' = escrowExists \cup {final_addr}
        /\ userEscrows' = [userEscrows EXCEPT ![buyer] = Append(@, final_addr)]
        /\ Commit(call, CreateTransfers(Token, buyer, creator, token_amount, TRUE))
        /\ UNCHANGED dstEscrows

create_src_escrow_partial(creator, hashed_secret, recipient, buyer, token_amount, withdrawal_start, public_withdrawal_start, cancellation_start, part_index, total_parts) ==
    /\ create_src_escrow_partial_error(creator, hashed_secret, recipient,
           buyer, token_amount, withdrawal_start, public_withdrawal_start,
           cancellation_start, part_index, total_parts) = "ok"
    /\ escrowCounter < MaxEscrows
    /\ create_src_escrow_partial_writes(
           Call("create_src_escrow_partial", creator, Factory, 0, <<>>),
           creator, hashed_secret, recipient, buyer, token_amount,
           withdrawal_start, public_withdrawal_start, cancellation_start,
           part_index, total_parts)
    /\ UNCHANGED lopVars

create_dst_escrow_partial_error(creator, hashed_secret, recipient, token_amount, withdrawal_start, public_withdrawal_start, cancellation_start, part_index, total_parts) ==
    OrElse(AmountError(token_amount),
        OrElse(WindowsError(withdrawal_start, public_withdrawal_start, cancellation_start),
        OrElse(PartIndexError(part_index, total_parts),
        TransferError(CreateTransfers(Token, creator, creator, token_amount, FALSE)))))

\* the writes and token transfers of create_dst_escrow_partial, for the
\* entry point itself and for the contracts that call it
create_dst_escrow_partial_writes(call, creator, hashed_secret, recipient, token_amount, withdrawal_start, public_withdrawal_start, cancellation_start, part_index, total_parts) ==
    LET is_partial_fill == total_parts > 1
        final_addr == Factory
        escrow_data == DestinationEscrowData(creator, recipient, hashed_secret,
                           token_amount, withdrawal_start,
                           public_withdrawal_start, cancellation_start,
                           part_index, total_parts, is_partial_fill)
    IN  /\ escrowCounter < MaxEscrows
        /\ escrowCounter' = escrowCounter + 1
        /\ dstEscrows' = [dstEscrows EXCEPT ![final_addr] = escrow_data]
        /\ escrowExists' = escrowExists \cup {final_addr}
        /\ userEscrows' = [userEscrows EXCEPT ![creator] = Append(@, final_addr)]
        /\ Commit(call, CreateTransfers(Token, creator, creator, token_amount, FALSE))
        /\ UNCHANGED <<srcEscrows, allowances, partialFillsUsed, partialFillsCount, lopVars>>

create_dst_escrow_partial(creator, hashed_secret, recipient, token_amount, withdrawal_start, public_withdrawal_start, cancellation_start, part_index, total_parts) ==
    /\ create_dst_escrow_partial_error(creator, hashed_secret, recipient,
           token_amount, withdrawal_start, public_withdrawal_start,
           cancellation_start, part_index, total_parts) = "ok"
    /\ create_dst_escrow_partial_writes(
           Call("create_dst_escrow_partial", creator, Factory, 0, <<>>),
           creator, hashed_secret, recipient, token_amount, withdrawal_start,
           public_withdrawal_start, cancellation_start, part_index, total_parts)

\* ------------------------------------------------------------------------
\* Checks shared, verbatim, by the withdraw / cancel / rescue entry points.
\* Each returns the panic message, or "ok" when the check passes.
\* ------------------------------------------------------------------------
\* faulty variant: the funds_withdrawn check is missing
EscrowStateErrorNoWithdrawnCheck(escrow_data) ==
    IF escrow_data.cancelled THEN "Already cancelled" ELSE "ok"

\* faulty variant: the cancelled check is missing
EscrowStateErrorNoCancelledCheck(escrow_data) ==
    IF escrow_data.funds_withdrawn THEN "Already withdrawn" ELSE "ok"

\* "Validate escrow state": funds_withdrawn, then cancelled
EscrowStateError(escrow_data) ==
    IF escrow_data.funds_withdrawn THEN "Already withdrawn"
    ELSE IF escrow_data.cancelled THEN "Already cancelled"
    ELSE "ok"

\* faulty variant: the window still counts as open at cancellation_start
WithdrawalWindowErrorOffByOne(current_time, escrow_data) ==
    IF current_time < escrow_data.withdrawal_start THEN "Withdrawal not started"
    ELSE IF current_time > escrow_data.cancellation_start THEN "Withdrawal ended"
    ELSE "ok"

\* withdrawal_start <= current_time < cancellation_start
WithdrawalWindowError(current_time, escrow_data) ==
    IF current_time < escrow_data.withdrawal_start THEN "Withdrawal not started"
    ELSE IF current_time >= escrow_data.cancellation_start THEN "Withdrawal ended"
    ELSE "ok"

\* faulty variant: the destination rule (recipient or creator) applied to a source escrow
SrcPrivateWindowErrorCreatorAllowed(current_time, caller, escrow_data) ==
    IF /\ current_time < escrow_data.public_withdrawal_start
       /\ caller # escrow_data.recipient
       /\ caller # escrow_data.creator
    THEN "Private window only"
    ELSE "ok"

\* source escrow: "Check private window restriction"
SrcPrivateWindowError(current_time, caller, escrow_data) ==
    IF /\ current_time < escrow_data.public_withdrawal_start
       /\ caller # escrow_data.recipient
    THEN "Private window only"
    ELSE "ok"

\* faulty variant: the private window is taken to end at withdrawal_start
DstPrivateWindowErrorWrongBoundary(current_time, caller, escrow_data) ==
    IF /\ current_time < escrow_data.withdrawal_start
       /\ caller # escrow_data.recipient
       /\ caller # escrow_data.creator
    THEN "Private window only"
    ELSE "ok"

\* destination escrow: recipient and creator may both withdraw privately
DstPrivateWindowError(current_time, caller, escrow_data) ==
    IF /\ current_time < escrow_data.public_withdrawal_start
       /\ caller # escrow_data.recipient
       /\ caller # escrow_data.creator
    THEN "Private window only"
    ELSE "ok"

\* faulty variant: the computed hash is compared with itself
SecretErrorSelfCompare(secret, escrow_data) ==
    IF Sha256(secret) # Sha256(secret) THEN "Invalid secret" ELSE "ok"

\* "Verify secret using SHA256"
SecretError(secret, escrow_data) ==
    IF Sha256(secret) # escrow_data.hashed_secret THEN "Invalid secret" ELSE "ok"

\* "Verify merkle proof": hashed_secret is the root, the leaf is built from
\* the record's own part_index
\* faulty variant: the leaf is built without the record's part index
MerkleProofErrorFirstPart(secret, merkle_proof, escrow_data) ==
    LET merkle_root == escrow_data.hashed_secret
        secret_hash == Sha256(secret)
        leaf == generate_leaf(0, secret_hash)
    IN  IF ~verify_merkle_proof(merkle_proof, merkle_root, leaf)
        THEN "Invalid merkle proof" ELSE "ok"

MerkleProofError(secret, merkle_proof, escrow_data) ==
    LET merkle_root == escrow_data.hashed_secret
        secret_hash == Sha256(secret)
        leaf == generate_leaf(escrow_data.part_index, secret_hash)
    IN  IF ~verify_merkle_proof(merkle_proof, merkle_root, leaf)
        THEN "Invalid merkle proof" ELSE "ok"

\* "Must be partial fill to use this function"
\* faulty variant: the with-proof path is open to complete fills
PartialFillErrorOmitted(escrow_data) == "ok"

PartialFillError(escrow_data) ==
    IF ~escrow_data.is_partial_fill THEN "Use withdraw() for complete fills"
    ELSE "ok"

\* ------------------------------------------------------------------------
\* Fund movement of each entry point (two transfer_tokens legs)
\* ------------------------------------------------------------------------
\* source withdraw: principal to the caller, deposit to the caller
SrcWithdrawTransfers(tok, caller, escrow_data) ==
    LET t1 == transfer_tokens(tok, escrow_data.token, Factory, caller,
                              escrow_data.amount, FALSE)
    IN  transfer_tokens(t1, escrow_data.token, Factory, caller,
                        escrow_data.security_deposit, FALSE)

\* faulty variant: the deposit follows the principal to the recipient
DstWithdrawTransfersDepositToRecipient(tok, caller, escrow_data) ==
    LET t1 == transfer_tokens(tok, escrow_data.token, Factory,
                              escrow_data.recipient, escrow_data.amount, FALSE)
    IN  transfer_tokens(t1, escrow_data.token, Factory, escrow_data.recipient,
                        escrow_data.security_deposit, FALSE)

\* destination withdraw: principal to the recipient, deposit to the caller
DstWithdrawTransfers(tok, caller, escrow_data) ==
    LET t1 == transfer_tokens(tok, escrow_data.token, Factory,
                              escrow_data.recipient, escrow_data.amount, FALSE)
    IN  transfer_tokens(t1, escrow_data.token, Factory, caller,
                        escrow_data.security_deposit, FALSE)

\* faulty variant: the principal is paid out to the recipient
CreatorRefundTransfersPrincipalToRecipient(tok, escrow_data) ==
    LET t1 == transfer_tokens(tok, escrow_data.token, Factory,
                              escrow_data.recipient, escrow_data.amount, FALSE)
    IN  transfer_tokens(t1, escrow_data.token, Factory, escrow_data.creator,
                        escrow_data.security_deposit, FALSE)

\* cancel, and destination rescue: principal and deposit to the creator
CreatorRefundTransfers(tok, escrow_data) ==
    LET t1 == transfer_tokens(tok, escrow_data.token, Factory,
                              escrow_data.creator, escrow_data.amount, FALSE)
    IN  transfer_tokens(t1, escrow_data.token, Factory, escrow_data.creator,
                        escrow_data.security_deposit, FALSE)

\* source rescue: principal to the recipient, deposit to the creator
SrcRescueTransfers(tok, escrow_data) ==
    LET t1 == transfer_tokens(tok, escrow_data.token, Factory,
                              escrow_data.recipient, escrow_data.amount, FALSE)
    IN  transfer_tokens(t1, escrow_data.token, Factory, escrow_data.creator,
                        escrow_data.security_deposit, FALSE)

\* the common tail of the entry points: write the record, move the funds
SettleSrc(call, escrow_address, new_data, tok) ==
    /\ srcEscrows' = [srcEscrows EXCEPT ![escrow_address] = new_data]
    /\ Commit(call, tok)
    /\ UNCHANGED <<dstEscrows, escrowExists, userEscrows, escrowCounter,
                   allowances, partialFillsUsed, partialFillsCount>>

SettleDst(call, escrow_address, new_data, tok) ==
    /\ dstEscrows' = [dstEscrows EXCEPT ![escrow_address] = new_data]
    /\ Commit(call, tok)
    /\ UNCHANGED <<srcEscrows, escrowExists, userEscrows, escrowCounter,
                   allowances, partialFillsUsed, partialFillsCount>>

\* ------------------------------------------------------------------------
\* Withdraw
\* ------------------------------------------------------------------------
withdraw_src_escrow_error(caller, escrow_address, secret) ==
    LET escrow_data == srcEscrows[escrow_address]
        current_time == now
    IN  IF escrow_data = NoEscrow THEN "Invalid address"
        ELSE OrElse(EscrowStateError(escrow_data),
        OrElse(WithdrawalWindowError(current_time, escrow_data),
        OrElse(SrcPrivateWindowError(current_time, caller, escrow_data),
        OrElse(SecretError(secret, escrow_data),
        TransferError(SrcWithdrawTransfers(Token, caller, escrow_data))))))

withdraw_src_escrow(caller, escrow_address, secret) ==
    LET escrow_data == srcEscrows[escrow_address]
    IN  /\ withdraw_src_escrow_error(caller, escrow_address, secret) = "ok"
        /\ SettleSrc(Call("withdraw_src_escrow", caller, escrow_address, secret, <<>>),
                     escrow_address,
                     [escrow_data EXCEPT !.funds_withdrawn = TRUE],
                     SrcWithdrawTransfers(Token, caller, escrow_data))
        /\ UNCHANGED lopVars

withdraw_src_escrow_with_proof_error(caller, escrow_address, secret, merkle_proof) ==
    LET escrow_data == srcEscrows[escrow_address]
        current_time == now
    IN  IF escrow_data = NoEscrow THEN "Invalid address"
        ELSE OrElse(EscrowStateError(escrow_data),
        OrElse(WithdrawalWindowError(current_time, escrow_data),
        OrElse(PartialFillError(escrow_data),
        OrElse(SrcPrivateWindowError(current_time, caller, escrow_data),
        OrElse(MerkleProofError(secret, merkle_proof, escrow_data),
        TransferError(SrcWithdrawTransfers(Token, caller, escrow_data)))))))

withdraw_src_escrow_with_proof(caller, escrow_address, secret, merkle_proof) ==
    LET escrow_data == srcEscrows[escrow_address]
    IN  /\ withdraw_src_escrow_with_proof_error(caller, escrow_address, secret,
                                                merkle_proof) = "ok"
        /\ SettleSrc(Call("withdraw_src_escrow_with_proof", caller,
                          escrow_address, secret, merkle_proof),
                     escrow_address,
                     [escrow_data EXCEPT !.funds_withdrawn = TRUE],
                     SrcWithdrawTransfers(Token, caller, escrow_data))
        /\ UNCHANGED lopVars

withdraw_dst_escrow_error(caller, escrow_address, secret) ==
    LET escrow_data == dstEscrows[escrow_address]
        current_time == now
    IN  IF escrow_data = NoEscrow THEN "Invalid address"
        ELSE OrElse(EscrowStateError(escrow_data),
        OrElse(WithdrawalWindowError(current_time, escrow_data),
        OrElse(DstPrivateWindowError(current_time, caller, escrow_data),
        OrElse(SecretError(secret, escrow_data),
        TransferError(DstWithdrawTransfers(Token, caller, escrow_data))))))

withdraw_dst_escrow(caller, escrow_address, secret) ==
    LET escrow_data == dstEscrows[escrow_address]
    IN  /\ withdraw_dst_escrow_error(caller, escrow_address, secret) = "ok"
        /\ SettleDst(Call("withdraw_dst_escrow", caller, escrow_address, secret, <<>>),
                     escrow_address,
                     [escrow_data EXCEPT !.funds_withdrawn = TRUE],
                     DstWithdrawTransfers(Token, caller, escrow_data))
        /\ UNCHANGED lopVars

withdraw_dst_escrow_with_proof_error(caller, escrow_address, secret, merkle_proof) ==
    LET escrow_data == dstEscrows[escrow_address]
        current_time == now
    IN  IF escrow_data = NoEscrow THEN "Invalid address"
        ELSE OrElse(EscrowStateError(escrow_data),
        OrElse(WithdrawalWindowError(current_time, escrow_data),
        OrElse(PartialFillError(escrow_data),
        OrElse(DstPrivateWindowError(current_time, caller, escrow_data),
        OrElse(MerkleProofError(secret, merkle_proof, escrow_data),
        TransferError(DstWithdrawTransfers(Token, caller, escrow_data)))))))

withdraw_dst_escrow_with_proof(caller, escrow_address, secret, merkle_proof) ==
    LET escrow_data == dstEscrows[escrow_address]
    IN  /\ withdraw_dst_escrow_with_proof_error(caller, escrow_address, secret,
                                                merkle_proof) = "ok"
        /\ SettleDst(Call("withdraw_dst_escrow_with_proof", caller,
                          escrow_address, secret, merkle_proof),
                     escrow_address,
                     [escrow_data EXCEPT !.funds_withdrawn = TRUE],
                     DstWithdrawTransfers(Token, caller, escrow_data))
        /\ UNCHANGED lopVars

\* ------------------------------------------------------------------------
\* Cancel
\* ------------------------------------------------------------------------
\* faulty variant: no upper end of the source cancellation window
SrcCancelErrorNoUpperEnd(current_time, caller, escrow_data) ==
    IF current_time < escrow_data.cancellation_start THEN "Cancellation not started"
    ELSE IF caller # escrow_data.creator THEN "Unauthorized"
    ELSE "ok"

\* source: cancellation_start <= current_time < public_cancellation_start,
\* then caller = creator
SrcCancelError(current_time, caller, escrow_data) ==
    IF current_time < escrow_data.cancellation_start THEN "Cancellation not started"
    ELSE IF current_time >= escrow_data.public_cancellation_start
         THEN "Private cancellation ended"
    ELSE IF caller # escrow_data.creator THEN "Unauthorized"
    ELSE "ok"

\* faulty variant: any caller may cancel a destination escrow
DstCancelErrorAnyCaller(current_time, caller, escrow_data) ==
    IF current_time < escrow_data.cancellation_start THEN "Cancellation not started"
    ELSE "ok"

\* destination: cancellation_start <= current_time, then caller = creator
DstCancelError(current_time, caller, escrow_data) ==
    IF current_time < escrow_data.cancellation_start THEN "Cancellation not started"
    ELSE IF caller # escrow_data.creator THEN "Unauthorized"
    ELSE "ok"

\* faulty variant: the creator may cancel at any time
cancel_src_escrow_errorAnyTime(caller, escrow_address) ==
    LET escrow_data == srcEscrows[escrow_address]
    IN  IF escrow_data = NoEscrow THEN "Invalid address"
        ELSE OrElse(EscrowStateError(escrow_data),
        OrElse(IF caller # escrow_data.creator THEN "Unauthorized" ELSE "ok",
        TransferError(CreatorRefundTransfers(Token, escrow_data))))

cancel_src_escrow_error(caller, escrow_address) ==
    LET escrow_data == srcEscrows[escrow_address]
        current_time == now
    IN  IF escrow_data = NoEscrow THEN "Invalid address"
        ELSE OrElse(EscrowStateError(escrow_data),
        OrElse(SrcCancelError(current_time, caller, escrow_data),
        TransferError(CreatorRefundTransfers(Token, escrow_data))))

\* the writes and transfers of cancel_src_escrow; `call` is the invocation
\* they are part of (the factory's own entry point, or the order book's
\* cancel_order that calls it)
cancel_src_escrow_writes(call, escrow_address) ==
    LET escrow_data == srcEscrows[escrow_address]
    IN  SettleSrc(call, escrow_address,
                  [escrow_data EXCEPT !.cancelled = TRUE],
                  CreatorRefundTransfers(Token, escrow_data))

cancel_src_escrow(caller, escrow_address) ==
    /\ cancel_src_escrow_error(caller, escrow_address) = "ok"
    /\ cancel_src_escrow_writes(
           Call("cancel_src_escrow", caller, escrow_address, 0, <<>>),
           escrow_address)
    /\ UNCHANGED lopVars

cancel_dst_escrow_error(caller, escrow_address) ==
    LET escrow_data == dstEscrows[escrow_address]
        current_time == now
    IN  IF escrow_data = NoEscrow THEN "Invalid address"
        ELSE OrElse(EscrowStateError(escrow_data),
        OrElse(DstCancelError(current_time, caller, escrow_data),
        TransferError(CreatorRefundTransfers(Token, escrow_data))))

cancel_dst_escrow(caller, escrow_address) ==
    LET escrow_data == dstEscrows[escrow_address]
    IN  /\ cancel_dst_escrow_error(caller, escrow_address) = "ok"
        /\ SettleDst(Call("cancel_dst_escrow", caller, escrow_address, 0, <<>>),
                     escrow_address,
                     [escrow_data EXCEPT !.cancelled = TRUE],
                     CreatorRefundTransfers(Token, escrow_data))
        /\ UNCHANGED lopVars

\* ------------------------------------------------------------------------
\* Rescue
\* ------------------------------------------------------------------------
\* faulty variant: the source rescue boundary counted from cancellation_start
SrcRescueErrorFromCancellationStart(current_time, caller, escrow_data) ==
    IF current_time < escrow_data.cancellation_start + RESCUE_DELAY
    THEN "Rescue not available"
    ELSE IF caller # escrow_data.recipient THEN "Unauthorized"
    ELSE "ok"

\* source: public_cancellation_start + RESCUE_DELAY <= current_time, then
\* caller = recipient
SrcRescueError(current_time, caller, escrow_data) ==
    IF current_time < escrow_data.public_cancellation_start + RESCUE_DELAY
    THEN "Rescue not available"
    ELSE IF caller # escrow_data.recipient THEN "Unauthorized"
    ELSE "ok"

\* faulty variant: the rescue delay is not added
DstRescueErrorNoDelay(current_time, caller, escrow_data) ==
    IF current_time < escrow_data.cancellation_start
    THEN "Rescue not available"
    ELSE IF caller # escrow_data.creator THEN "Unauthorized"
    ELSE "ok"

\* destination: cancellation_start + RESCUE_DELAY <= current_time, then
\* caller = creator
DstRescueError(current_time, caller, escrow_data) ==
    IF current_time < escrow_data.cancellation_start + RESCUE_DELAY
    THEN "Rescue not available"
    ELSE IF caller # escrow_data.creator THEN "Unauthorized"
    ELSE "ok"

\* faulty variant: any caller may rescue
rescue_src_escrow_errorAnyCaller(caller, escrow_address) ==
    LET escrow_data == srcEscrows[escrow_address]
        current_time == now
    IN  IF escrow_data = NoEscrow THEN "Invalid address"
        ELSE OrElse(EscrowStateError(escrow_data),
        OrElse(IF current_time < escrow_data.public_cancellation_start + RESCUE_DELAY
               THEN "Rescue not available" ELSE "ok",
        TransferError(SrcRescueTransfers(Token, escrow_data))))

rescue_src_escrow_error(caller, escrow_address) ==
    LET escrow_data == srcEscrows[escrow_address]
        current_time == now
    IN  IF escrow_data = NoEscrow THEN "Invalid address"
        ELSE OrElse(EscrowStateError(escrow_data),
        OrElse(SrcRescueError(current_time, caller, escrow_data),
        TransferError(SrcRescueTransfers(Token, escrow_data))))

rescue_src_escrow(caller, escrow_address) ==
    LET escrow_data == srcEscrows[escrow_address]
    IN  /\ rescue_src_escrow_error(caller, escrow_address) = "ok"
        /\ SettleSrc(Call("rescue_src_escrow", caller, escrow_address, 0, <<>>),
                     escrow_address,
                     [escrow_data EXCEPT !.funds_withdrawn = TRUE],
                     SrcRescueTransfers(Token, escrow_data))
        /\ UNCHANGED lopVars

rescue_dst_escrow_error(caller, escrow_address) ==
    LET escrow_data == dstEscrows[escrow_address]
        current_time == now
    IN  IF escrow_data = NoEscrow THEN "Invalid address"
        ELSE OrElse(EscrowStateError(escrow_data),
        OrElse(DstRescueError(current_time, caller, escrow_data),
        TransferError(CreatorRefundTransfers(Token, escrow_data))))

rescue_dst_escrow(caller, escrow_address) ==
    LET escrow_data == dstEscrows[escrow_address]
    IN  /\ rescue_dst_escrow_error(caller, escrow_address) = "ok"
        /\ SettleDst(Call("rescue_dst_escrow", caller, escrow_address, 0, <<>>),
                     escrow_address,
                     [escrow_data EXCEPT !.funds_withdrawn = TRUE],
                     CreatorRefundTransfers(Token, escrow_data))
        /\ UNCHANGED lopVars

\* ------------------------------------------------------------------------
\* The order book (limit-order-protocol): approve / allowance, fill_order,
\* cancel_order.  Its calls into the factory are part of the same invocation:
\* a panic of the nested call is a panic of the whole call.
\* ------------------------------------------------------------------------
\* amounts passed to the two approve entry points (i128)
ApproveAmounts == (-1)..MaxAmount

\* <<hashed_secret, part_index, total_parts>> passed to fill_order
LopPartChoices == PartChoices \cup {<<Sha256(1), 0, 0>>}

\* part_index passed to cancel_order
PartIndices == {0, 1}

lop_allowance(owner, spender) == lopAllowances[owner]

lop_approve(caller, amount) ==
    /\ lopAllowances' = [lopAllowances EXCEPT ![caller] = amount]
    /\ last' = [Call("lop_approve", caller, Lop, 0, <<>>) EXCEPT !.amount = amount]
    /\ UNCHANGED <<now, merkleVars, srcEscrows, dstEscrows, escrowExists, userEscrows,
                   escrowCounter, allowances, partialFillsUsed,
                   partialFillsCount, balances, tokenAllowance, partsFilled,
                   filledOrders, filledSegmentsCount, userFilledOrders>>

FilledOrder(order_hash, maker, recipient, escrow_address, part_index, total_parts) ==
    [order_hash |-> order_hash, maker |-> maker, recipient |-> recipient,
     escrow_address |-> escrow_address, part_index |-> part_index,
     total_parts |-> total_parts, is_active |-> TRUE]

\* faulty variant: the inputs are passed on unvalidated
FillInputErrorOmitted(token_amount, part_index, total_parts) == "ok"

\* "Validate inputs" of fill_order
FillInputError(token_amount, part_index, total_parts) ==
    IF total_parts = 0 THEN "Total parts must be > 0"
    ELSE IF part_index >= total_parts THEN "Invalid part index"
    ELSE IF token_amount <= 0 THEN "Token amount must be > 0"
    ELSE "ok"

\* faulty variant: a part cancelled through cancel_order counts as unfilled
PartFilledErrorActiveOnly(order_hash, part_index) ==
    IF \E i \in 1..Len(filledOrders[order_hash]) :
           /\ filledOrders[order_hash][i].part_index = part_index
           /\ filledOrders[order_hash][i].is_active
    THEN "Part already filled" ELSE "ok"

\* "Check if this part is already filled"
PartFilledError(order_hash, part_index) ==
    IF <<order_hash, part_index>> \in partsFilled
    THEN "Part already filled" ELSE "ok"

\* faulty variant: the allowance is not compared with the amount
LopAllowanceErrorNoCheck(maker, token_amount) == "ok"

\* "Check allowance - LOP must be approved to spend maker's tokens"
LopAllowanceError(maker, token_amount) ==
    IF lop_allowance(maker, Lop) < token_amount
    THEN "Insufficient allowance" ELSE "ok"

fill_order_error(order_hash, maker, recipient, token_amount, hashed_secret, withdrawal_start, public_withdrawal_start, part_index, total_parts) ==
    OrElse(FillInputError(token_amount, part_index, total_parts),
        OrElse(PartFilledError(order_hash, part_index),
        OrElse(LopAllowanceError(maker, token_amount),
        create_src_escrow_partial_error(Lop, hashed_secret, recipient, maker,
            token_amount, withdrawal_start, public_withdrawal_start,
            withdrawal_start + LOP_CANCEL_OFFSET, part_index, total_parts))))

\* faulty variant: the order is indexed under the maker on every fill
fill_order_writesIndexedAlways(call, order_hash, maker, recipient, token_amount, hashed_secret, withdrawal_start, public_withdrawal_start, part_index, total_parts) ==
    LET current_allowance == lop_allowance(maker, Lop)
        new_allowance == current_allowance - token_amount
        escrow_address == Factory
        filled_order == FilledOrder(order_hash, maker, recipient, escrow_address,
                                    part_index, total_parts)
        current_count == filledSegmentsCount[order_hash]
    IN  /\ lopAllowances' = [lopAllowances EXCEPT ![maker] = new_allowance]
        /\ create_src_escrow_partial_writes(
               [call EXCEPT !.amount = token_amount],
               Lop, hashed_secret, recipient, maker, token_amount,
               withdrawal_start, public_withdrawal_start,
               withdrawal_start + LOP_CANCEL_OFFSET, part_index, total_parts)
        /\ filledOrders' = [filledOrders EXCEPT ![order_hash] = Append(@, filled_order)]
        /\ partsFilled' = partsFilled \cup {<<order_hash, part_index>>}
        /\ filledSegmentsCount' = [filledSegmentsCount EXCEPT ![order_hash] = current_count + 1]
        /\ userFilledOrders' = [userFilledOrders EXCEPT ![maker] = Append(@, order_hash)]

\* the writes of fill_order, those of the nested create_src_escrow_partial
\* included, for the entry point itself and for the contract that calls it
fill_order_writes(call, order_hash, maker, recipient, token_amount, hashed_secret, withdrawal_start, public_withdrawal_start, part_index, total_parts) ==
    LET current_allowance == lop_allowance(maker, Lop)
        new_allowance == current_allowance - token_amount
        escrow_address == Factory
        filled_order == FilledOrder(order_hash, maker, recipient, escrow_address,
                                    part_index, total_parts)
        current_count == filledSegmentsCount[order_hash]
    IN  /\ lopAllowances' = [lopAllowances EXCEPT ![maker] = new_allowance]
        /\ create_src_escrow_partial_writes(
               [call EXCEPT !.amount = token_amount],
               Lop, hashed_secret, recipient, maker, token_amount,
               withdrawal_start, public_withdrawal_start,
               withdrawal_start + LOP_CANCEL_OFFSET, part_index, total_parts)
        /\ filledOrders' = [filledOrders EXCEPT ![order_hash] = Append(@, filled_order)]
        /\ partsFilled' = partsFilled \cup {<<order_hash, part_index>>}
        /\ filledSegmentsCount' = [filledSegmentsCount EXCEPT ![order_hash] = current_count + 1]
        /\ userFilledOrders' =
               IF current_count = 0
               THEN [userFilledOrders EXCEPT ![maker] = Append(@, order_hash)]
               ELSE userFilledOrders

fill_order(order_hash, maker, recipient, token_amount, hashed_secret, withdrawal_start, public_withdrawal_start, part_index, total_parts) ==
    /\ fill_order_error(order_hash, maker, recipient, token_amount,
           hashed_secret, withdrawal_start, public_withdrawal_start,
           part_index, total_parts) = "ok"
    /\ escrowCounter < MaxEscrows
    /\ fill_order_writes(Call("fill_order", Lop, Factory, 0, <<>>),
           order_hash, maker, recipient, token_amount, hashed_secret,
           withdrawal_start, public_withdrawal_start, part_index, total_parts)

\* what a read-only entry point gives back: a value, or a panic.  A u64
\* difference below zero panics in a build with overflow checks and wraps
\* otherwise: the result is then wraps * 2^64 + value.
Returned(value) == [panics |-> FALSE, wraps |-> 0, value |-> value]

Panicked == [panics |-> TRUE, wraps |-> 0, value |-> 0]

U64Sub(a, b) ==
    IF a >= b THEN {Returned(a - b)}
    ELSE {Panicked, [panics |-> FALSE, wraps |-> 1, value |-> a - b]}

\* the outcomes of get_remaining_segments
get_remaining_segments(order_hash, total_parts) ==
    IF total_parts <= 1
    THEN LET part_filled == <<order_hash, 0>> \in partsFilled
         IN  {Returned(IF part_filled THEN 0 ELSE 1)}
    ELSE LET filled_count == filledSegmentsCount[order_hash]
         IN  U64Sub(total_parts, filled_count)

\* positions of filled_orders whose part_index is the one asked for
PartPositions(order_hash, part_index) ==
    {i \in 1..Len(filledOrders[order_hash]) :
        filledOrders[order_hash][i].part_index = part_index}

\* the first such position (the loop breaks at the first match)
FirstPartPosition(order_hash, part_index) ==
    CHOOSE i \in PartPositions(order_hash, part_index) :
        \A j \in PartPositions(order_hash, part_index) : i <= j

\* faulty variant: the caller is not compared with the part's maker
cancel_order_errorAnyCaller(caller, order_hash, part_index) ==
    IF <<order_hash, part_index>> \notin partsFilled THEN "Part not filled"
    ELSE IF PartPositions(order_hash, part_index) = {} THEN "Part not found"
    ELSE LET order == filledOrders[order_hash][FirstPartPosition(order_hash, part_index)]
         IN  IF ~order.is_active THEN "Part already cancelled"
             ELSE cancel_src_escrow_error(caller, order.escrow_address)

cancel_order_error(caller, order_hash, part_index) ==
    IF <<order_hash, part_index>> \notin partsFilled THEN "Part not filled"
    ELSE IF PartPositions(order_hash, part_index) = {} THEN "Part not found"
    ELSE LET order == filledOrders[order_hash][FirstPartPosition(order_hash, part_index)]
         IN  IF ~order.is_active THEN "Part already cancelled"
             ELSE IF order.maker # caller THEN "Only maker can cancel"
             ELSE cancel_src_escrow_error(caller, order.escrow_address)

\* faulty variant: the cancelled part is marked as not filled again
cancel_orderUnmarksPart(caller, order_hash, part_index) ==
    LET i == FirstPartPosition(order_hash, part_index)
        order == filledOrders[order_hash][i]
    IN  /\ cancel_order_error(caller, order_hash, part_index) = "ok"
        /\ cancel_src_escrow_writes(
               Call("cancel_order", caller, order.escrow_address, 0, <<>>),
               order.escrow_address)
        /\ filledOrders' = [filledOrders EXCEPT ![order_hash][i].is_active = FALSE]
        /\ partsFilled' = partsFilled \ {<<order_hash, part_index>>}
        /\ UNCHANGED <<lopAllowances, filledSegmentsCount, userFilledOrders>>

cancel_order(caller, order_hash, part_index) ==
    LET i == FirstPartPosition(order_hash, part_index)
        order == filledOrders[order_hash][i]
    IN  /\ cancel_order_error(caller, order_hash, part_index) = "ok"
        /\ cancel_src_escrow_writes(
               Call("cancel_order", caller, order.escrow_address, 0, <<>>),
               order.escrow_address)
        /\ filledOrders' = [filledOrders EXCEPT ![order_hash][i].is_active = FALSE]
        /\ UNCHANGED <<lopAllowances, partsFilled, filledSegmentsCount,
                       userFilledOrders>>

\* ------------------------------------------------------------------------
\* The resolver contract (swap orchestrator) in front of the order book and
\* the factory.  It passes its caller on to the contracts it calls.
\* ------------------------------------------------------------------------
\* the owner the resolver contract was initialized with
ResolverOwner == "resolver"

\* "Only owner can ..."
OwnerError(caller, message) == IF caller # ResolverOwner THEN message ELSE "ok"

execute_cross_chain_swap_error(caller, order_hash, maker, recipient, token_amount, hashed_secret, withdrawal_start, part_index, total_parts) ==
    OrElse(OwnerError(caller, "Only owner can execute"),
        fill_order_error(order_hash, maker, recipient, token_amount,
            hashed_secret, withdrawal_start,
            withdrawal_start + RESOLVER_PUBLIC_WITHDRAWAL_OFFSET,
            part_index, total_parts))

execute_cross_chain_swap(caller, order_hash, maker, recipient, token_amount, hashed_secret, withdrawal_start, part_index, total_parts) ==
    /\ execute_cross_chain_swap_error(caller, order_hash, maker, recipient,
           token_amount, hashed_secret, withdrawal_start, part_index,
           total_parts) = "ok"
    /\ escrowCounter < MaxEscrows
    /\ fill_order_writes(Call("execute_cross_chain_swap", caller, Factory, 0, <<>>),
           order_hash, maker, recipient, token_amount, hashed_secret,
           withdrawal_start,
           withdrawal_start + RESOLVER_PUBLIC_WITHDRAWAL_OFFSET,
           part_index, total_parts)

\* faulty variant: the plain-secret path is taken for every record
SrcWithdrawPathErrorAlwaysPlain(caller, escrow_address, secret, merkle_proof) ==
    LET escrow_data == srcEscrows[escrow_address]
    IN  IF escrow_data = NoEscrow THEN "Invalid address"
        ELSE withdraw_src_escrow_error(caller, escrow_address, secret)

\* get_src_escrow, then "Check if this is a partial fill escrow"
SrcWithdrawPathError(caller, escrow_address, secret, merkle_proof) ==
    LET escrow_data == srcEscrows[escrow_address]
    IN  IF escrow_data = NoEscrow THEN "Invalid address"
        ELSE IF escrow_data.is_partial_fill
        THEN IF Len(merkle_proof) = 0
             THEN "Merkle proof required for partial fills"
             ELSE withdraw_src_escrow_with_proof_error(caller, escrow_address,
                                                       secret, merkle_proof)
        ELSE withdraw_src_escrow_error(caller, escrow_address, secret)

\* get_dst_escrow, then "Check if this is a partial fill escrow"
DstWithdrawPathError(caller, escrow_address, secret, merkle_proof) ==
    LET escrow_data == dstEscrows[escrow_address]
    IN  IF escrow_data = NoEscrow THEN "Invalid address"
        ELSE IF escrow_data.is_partial_fill
        THEN IF Len(merkle_proof) = 0
             THEN "Merkle proof required for partial fills"
             ELSE withdraw_dst_escrow_with_proof_error(caller, escrow_address,
                                                       secret, merkle_proof)
        ELSE withdraw_dst_escrow_error(caller, escrow_address, secret)

\* the writes of either source withdrawal path of the factory
ResolverSrcWithdraw(op, caller, escrow_address, secret, merkle_proof) ==
    LET escrow_data == srcEscrows[escrow_address]
    IN  /\ SettleSrc(Call(op, caller, escrow_address, secret, merkle_proof),
                     escrow_address,
                     [escrow_data EXCEPT !.funds_withdrawn = TRUE],
                     SrcWithdrawTransfers(Token, caller, escrow_data))
        /\ UNCHANGED lopVars

complete_cross_chain_swap_error(caller, escrow_address, secret, merkle_proof) ==
    OrElse(OwnerError(caller, "Only owner can complete"),
        SrcWithdrawPathError(caller, escrow_address, secret, merkle_proof))

complete_cross_chain_swap(caller, escrow_address, secret, merkle_proof) ==
    /\ complete_cross_chain_swap_error(caller, escrow_address, secret,
                                       merkle_proof) = "ok"
    /\ ResolverSrcWithdraw("complete_cross_chain_swap", caller, escrow_address,
                           secret, merkle_proof)

withdraw_from_source_escrow_error(caller, escrow_address, secret, merkle_proof) ==
    SrcWithdrawPathError(caller, escrow_address, secret, merkle_proof)

withdraw_from_source_escrow(caller, escrow_address, secret, merkle_proof) ==
    /\ withdraw_from_source_escrow_error(caller, escrow_address, secret,
                                         merkle_proof) = "ok"
    /\ ResolverSrcWithdraw("withdraw_from_source_escrow", caller,
                           escrow_address, secret, merkle_proof)

withdraw_from_destination_escrow_error(caller, escrow_address, secret, merkle_proof) ==
    DstWithdrawPathError(caller, escrow_address, secret, merkle_proof)

withdraw_from_destination_escrow(caller, escrow_address, secret, merkle_proof) ==
    LET escrow_data == dstEscrows[escrow_address]
    IN  /\ withdraw_from_destination_escrow_error(caller, escrow_address,
                                                  secret, merkle_proof) = "ok"
        /\ SettleDst(Call("withdraw_from_destination_escrow", caller,
                          escrow_address, secret, merkle_proof),
                     escrow_address,
                     [escrow_data EXCEPT !.funds_withdrawn = TRUE],
                     DstWithdrawTransfers(Token, caller, escrow_data))
        /\ UNCHANGED lopVars

create_destination_escrow_error(caller, hashed_secret, recipient, amount, withdrawal_start, public_withdrawal_start, cancellation_start, part_index, total_parts) ==
    OrElse(OwnerError(caller, "Only owner can create"),
        create_dst_escrow_partial_error(caller, hashed_secret, recipient,
            amount, withdrawal_start, public_withdrawal_start,
            cancellation_start, part_index, total_parts))

\* the factory's read-only entry points used by the resolver
get_user_escrows(user) == userEscrows[user]

get_dst_escrow(escrow_address) == dstEscrows[escrow_address]

\* faulty variant: the caller is passed on as the recipient
create_destination_escrowToCaller(caller, hashed_secret, recipient, amount, withdrawal_start, public_withdrawal_start, cancellation_start, part_index, total_parts) ==
    /\ create_destination_escrow_error(caller, hashed_secret, caller,
           amount, withdrawal_start, public_withdrawal_start,
           cancellation_start, part_index, total_parts) = "ok"
    /\ create_dst_escrow_partial_writes(
           Call("create_destination_escrow", caller, Factory, 0, <<>>),
           caller, hashed_secret, caller, amount, withdrawal_start,
           public_withdrawal_start, cancellation_start, part_index, total_parts)

\* the reference returned is read back, after the nested creation, from the
\* end of the caller's escrow index
create_destination_escrow(caller, hashed_secret, recipient, amount, withdrawal_start, public_withdrawal_start, cancellation_start, part_index, total_parts) ==
    LET user_escrows == get_user_escrows(caller)'
        escrow_address == user_escrows[Len(user_escrows)]
    IN  /\ create_destination_escrow_error(caller, hashed_secret, recipient,
               amount, withdrawal_start, public_withdrawal_start,
               cancellation_start, part_index, total_parts) = "ok"
        /\ create_dst_escrow_partial_writes(
               Call("create_destination_escrow", caller, escrow_address, 0, <<>>),
               caller, hashed_secret, recipient, amount, withdrawal_start,
               public_withdrawal_start, cancellation_start, part_index,
               total_parts)

\* the resolver contract's cancel_order: the owner is passed on as the caller
\* of the order book's cancel_order, which wants the maker of the part
resolver_cancel_order_error(caller, order_hash, part_index) ==
    OrElse(OwnerError(caller, "Only owner can cancel"),
        cancel_order_error(caller, order_hash, part_index))

\* ------------------------------------------------------------------------
\* The ledger clock.  Every comparison of the contract is against a window
\* boundary of a record or a rescue boundary (cancellation_start or
\* public_cancellation_start + RESCUE_DELAY), so the clock steps through the
\* instants the records that can be created may hold.
\* ------------------------------------------------------------------------
CancellationStarts == 2..(MaxT - 1)

\* cancellation_start of the escrows the order book creates
LopCancellationStarts == {ws + LOP_CANCEL_OFFSET : ws \in WindowStarts}

PublicCancellationStarts ==
    (3..MaxT) \cup {cs + PARTIAL_PUBLIC_CANCEL_OFFSET :
                        cs \in CancellationStarts \cup LopCancellationStarts}

TimePoints ==
    Times \cup LopCancellationStarts \cup PublicCancellationStarts
          \cup {cs + RESCUE_DELAY : cs \in CancellationStarts}
          \cup {pcs + RESCUE_DELAY : pcs \in PublicCancellationStarts}

Tick ==
    /\ \E t \in TimePoints : t > now /\ now' = t
    /\ last' = NoCall
    /\ UNCHANGED <<storeVars, merkleVars>>

\* public_withdrawal_start of the escrows created through the resolver
ResolverPublicWithdrawalStarts ==
    {ws + RESOLVER_PUBLIC_WITHDRAWAL_OFFSET : ws \in WindowStarts}

\* the clock where swaps go through the resolver contract
ResolverTick ==
    /\ \E t \in TimePoints \cup ResolverPublicWithdrawalStarts : t > now /\ now' = t
    /\ last' = NoCall
    /\ UNCHANGED <<storeVars, merkleVars>>

\* ------------------------------------------------------------------------
\* Next-state relation: any party invokes any entry point with any inputs
\* ------------------------------------------------------------------------
Approve == \E caller \in Buyers, amount \in ApproveAmounts : approve(caller, amount)

LopApprove == \E caller \in Buyers, amount \in ApproveAmounts : lop_approve(caller, amount)

FillOrder ==
    \E order_hash \in OrderHashes, maker \in Buyers, recipient \in SrcRecipients,
       amount \in Amounts, part \in LopPartChoices,
       ws \in WindowStarts, g1 \in Gaps :
        fill_order(order_hash, maker, recipient, amount, part[1], ws, ws + g1,
                   part[2], part[3])

CancelOrder ==
    \E caller \in Parties, order_hash \in OrderHashes, part_index \in PartIndices :
        cancel_order(caller, order_hash, part_index)

CreateSrc ==
    \E creator \in Creators, h \in FullLocks, recipient \in SrcRecipients,
       buyer \in Buyers, amount \in Amounts,
       ws \in WindowStarts, g1 \in Gaps, g2 \in Gaps, g3 \in Gaps :
        create_src_escrow(creator, h, recipient, buyer, amount,
                          ws, ws + g1, ws + g1 + g2, ws + g1 + g2 + g3)

CreateDst ==
    \E creator \in Creators, h \in FullLocks, recipient \in DstRecipients,
       amount \in Amounts, ws \in WindowStarts, g1 \in Gaps, g2 \in Gaps :
        create_dst_escrow(creator, h, recipient, amount,
                          ws, ws + g1, ws + g1 + g2)

CreateSrcPartial ==
    \E creator \in Creators, part \in PartChoices, recipient \in SrcRecipients,
       buyer \in Buyers, amount \in Amounts,
       ws \in WindowStarts, g1 \in Gaps, g2 \in Gaps :
        create_src_escrow_partial(creator, part[1], recipient, buyer, amount,
                                  ws, ws + g1, ws + g1 + g2,
                                  part[2], part[3])

CreateDstPartial ==
    \E creator \in Creators, part \in PartChoices, recipient \in DstRecipients,
       amount \in Amounts, ws \in WindowStarts, g1 \in Gaps, g2 \in Gaps :
        create_dst_escrow_partial(creator, part[1], recipient, amount,
                                  ws, ws + g1, ws + g1 + g2,
                                  part[2], part[3])

WithdrawSrc ==
    \E caller \in Parties, e \in EscrowRefs, secret \in Secrets :
        withdraw_src_escrow(caller, e, secret)

WithdrawSrcWithProof ==
    \E caller \in Parties, e \in EscrowRefs, secret \in Secrets, proof \in Proofs :
        withdraw_src_escrow_with_proof(caller, e, secret, proof)

WithdrawDst ==
    \E caller \in Parties, e \in EscrowRefs, secret \in Secrets :
        withdraw_dst_escrow(caller, e, secret)

WithdrawDstWithProof ==
    \E caller \in Parties, e \in EscrowRefs, secret \in Secrets, proof \in Proofs :
        withdraw_dst_escrow_with_proof(caller, e, secret, proof)

CancelSrc == \E caller \in Parties, e \in EscrowRefs : cancel_src_escrow(caller, e)

CancelDst == \E caller \in Parties, e \in EscrowRefs : cancel_dst_escrow(caller, e)

RescueSrc == \E caller \in Parties, e \in EscrowRefs : rescue_src_escrow(caller, e)

RescueDst == \E caller \in Parties, e \in EscrowRefs : rescue_dst_escrow(caller, e)

Next ==
    \/ Tick
    \/ Approve
    \/ CreateSrc
    \/ CreateDst
    \/ CreateSrcPartial
    \/ CreateDstPartial
    \/ WithdrawSrc
    \/ WithdrawSrcWithProof
    \/ WithdrawDst
    \/ WithdrawDstWithProof
    \/ CancelSrc
    \/ CancelDst
    \/ RescueSrc
    \/ RescueDst

Spec == Init /\ [][Next]_vars

ExecuteCrossChainSwap ==
    \E caller \in Parties, order_hash \in OrderHashes, maker \in Buyers,
       recipient \in SrcRecipients, amount \in Amounts, part \in LopPartChoices,
       ws \in WindowStarts :
        execute_cross_chain_swap(caller, order_hash, maker, recipient, amount,
                                 part[1], ws, part[2], part[3])

CompleteCrossChainSwap ==
    \E caller \in Parties, e \in EscrowRefs, secret \in Secrets, proof \in Proofs :
        complete_cross_chain_swap(caller, e, secret, proof)

WithdrawFromSourceEscrow ==
    \E caller \in Parties, e \in EscrowRefs, secret \in Secrets, proof \in Proofs :
        withdraw_from_source_escrow(caller, e, secret, proof)

WithdrawFromDestinationEscrow ==
    \E caller \in Parties, e \in EscrowRefs, secret \in Secrets, proof \in Proofs :
        withdraw_from_destination_escrow(caller, e, secret, proof)

CreateDestinationEscrow ==
    \E caller \in Parties, part \in PartChoices, recipient \in DstRecipients,
       amount \in Amounts, ws \in WindowStarts, g1 \in Gaps, g2 \in Gaps :
        create_destination_escrow(caller, part[1], recipient, amount,
                                  ws, ws + g1, ws + g1 + g2, part[2], part[3])

\* <<hashed_secret, part_index, total_parts>> of the fills whose segments
\* are counted: a single part, and the three parts of a three-part order
SegmentChoices == {<<Sha256(1), 0, 1>>} \cup {<<MerkleRoot, i, 3>> : i \in 0..2}

\* the makers whose fills are counted
SegmentMakers == {"maker", "other"}

\* a maker approves the order book for all the fills at once
SegmentApprove ==
    \E caller \in SegmentMakers : lop_approve(caller, MaxFills * MaxAmount)

\* the clock of the order book: the instants from which its escrows can be
\* cancelled by the maker and by anyone
SegmentsTick ==
    /\ \E t \in LopCancellationStarts \cup
                 {cs + PARTIAL_PUBLIC_CANCEL_OFFSET : cs \in LopCancellationStarts} :
           t > now /\ now' = t
    /\ last' = NoCall
    /\ UNCHANGED <<storeVars, merkleVars>>

\* fill_order for the parts of an order, by a funded maker
FillSegment ==
    \E order_hash \in OrderHashes, maker \in SegmentMakers, recipient \in SrcRecipients,
       part \in SegmentChoices, ws \in WindowStarts :
        /\ fill_order_error(order_hash, maker, recipient, MaxAmount, part[1],
                            ws, ws + 1, part[2], part[3]) = "ok"
        /\ escrowCounter < MaxFills
        /\ fill_order_writes(Call("fill_order", Lop, Factory, 0, <<>>),
               order_hash, maker, recipient, MaxAmount, part[1], ws, ws + 1,
               part[2], part[3])

\* the order book on its own: the parts of an order are filled one after the
\* other and cancelled
SegmentsNext ==
    \/ SegmentsTick
    \/ SegmentApprove
    \/ FillSegment
    \/ CancelOrder

SegmentsSpec == SegmentsInit /\ [][SegmentsNext]_vars

\* the order book in front of the factory: orders are filled and cancelled
\* through the order book, next to direct calls on the source escrows
LopNext ==
    \/ Tick
    \/ LopApprove
    \/ FillOrder
    \/ CancelOrder
    \/ CreateSrcPartial
    \/ WithdrawSrc
    \/ WithdrawSrcWithProof
    \/ CancelSrc
    \/ RescueSrc

LopSpec == Init /\ [][LopNext]_vars

\* swaps driven through the resolver contract: the maker approves the order
\* book, every party calls the resolver contract's entry points
ResolverNext ==
    \/ ResolverTick
    \/ LopApprove
    \/ ExecuteCrossChainSwap
    \/ CompleteCrossChainSwap
    \/ WithdrawFromSourceEscrow
    \/ WithdrawFromDestinationEscrow
    \/ CreateDestinationEscrow

ResolverSpec == Init /\ [][ResolverNext]_vars

\* fills of the order book, made directly and through the resolver
SwapNext ==
    \/ ResolverTick
    \/ LopApprove
    \/ FillOrder
    \/ ExecuteCrossChainSwap

SwapSpec == Init /\ [][SwapNext]_vars

\* ------------------------------------------------------------------------
\* Vocabulary of the properties
\* ------------------------------------------------------------------------
Exists(escrow_data) == escrow_data # NoEscrow

Terminal(escrow_data) ==
    Exists(escrow_data) /\ (escrow_data.funds_withdrawn \/ escrow_data.cancelled)

Active(escrow_data) ==
    Exists(escrow_data) /\ ~escrow_data.funds_withdrawn /\ ~escrow_data.cancelled

SrcWithdrawOps == {"withdraw_src_escrow", "withdraw_src_escrow_with_proof"}

DstWithdrawOps == {"withdraw_dst_escrow", "withdraw_dst_escrow_with_proof"}

SrcSettleOps == SrcWithdrawOps \cup {"cancel_src_escrow", "rescue_src_escrow"}

DstSettleOps == DstWithdrawOps \cup {"cancel_dst_escrow", "rescue_dst_escrow"}

CreateOps == {"create_src_escrow", "create_dst_escrow",
              "create_src_escrow_partial", "create_dst_escrow_partial"}

AlreadyErrors == {"Already withdrawn", "Already cancelled"}

\* the record the last invocation was about
LastSrc == srcEscrows[last.escrow]

LastDst == dstEscrows[last.escrow]

\* ------------------------------------------------------------------------
\* C1: once an escrow record has funds_withdrawn or cancelled set, no later
\* operation of the factory changes it.
\* ------------------------------------------------------------------------
C1_TerminalRecordNeverChanges ==
    [][\A a \in Addresses :
          /\ Terminal(srcEscrows[a]) => srcEscrows'[a] = srcEscrows[a]
          /\ Terminal(dstEscrows[a]) => dstEscrows'[a] = dstEscrows[a]]_vars

\* ------------------------------------------------------------------------
\* C2: every stored source or destination record has at most one of
\* funds_withdrawn and cancelled set.
\* ------------------------------------------------------------------------
C2_FlagsExclusive ==
    \A a \in Addresses :
        /\ Exists(srcEscrows[a]) =>
               ~(srcEscrows[a].funds_withdrawn /\ srcEscrows[a].cancelled)
        /\ Exists(dstEscrows[a]) =>
               ~(dstEscrows[a].funds_withdrawn /\ dstEscrows[a].cancelled)

\* a withdrawn source record next to a cancelled destination record, while
\* the factory still holds funds
C2_Witness ==
    /\ Exists(srcEscrows[Factory]) /\ srcEscrows[Factory].funds_withdrawn
    /\ Exists(dstEscrows[Factory]) /\ dstEscrows[Factory].cancelled

\* on a terminal record every withdraw, withdraw-with-proof, cancel and rescue
\* call, by any caller with any input, is rejected as already settled
SettleCallsRejected ==
    \A a \in EscrowRefs, caller \in Parties :
        /\ Terminal(srcEscrows[a]) =>
              /\ cancel_src_escrow_error(caller, a) \in AlreadyErrors
              /\ rescue_src_escrow_error(caller, a) \in AlreadyErrors
              /\ \A secret \in Secrets :
                    /\ withdraw_src_escrow_error(caller, a, secret) \in AlreadyErrors
                    /\ \A proof \in Proofs :
                          withdraw_src_escrow_with_proof_error(caller, a, secret, proof)
                              \in AlreadyErrors
        /\ Terminal(dstEscrows[a]) =>
              /\ cancel_dst_escrow_error(caller, a) \in AlreadyErrors
              /\ rescue_dst_escrow_error(caller, a) \in AlreadyErrors
              /\ \A secret \in Secrets :
                    /\ withdraw_dst_escrow_error(caller, a, secret) \in AlreadyErrors
                    /\ \A proof \in Proofs :
                          withdraw_dst_escrow_with_proof_error(caller, a, secret, proof)
                              \in AlreadyErrors

\* a settling call finds the record active, leaves it terminal and pays out
\* the principal and the deposit
SettlesOnce(before, after) ==
    /\ Active(before)
    /\ Terminal(after)
    /\ balances[Factory] - balances'[Factory] = before.amount + before.security_deposit

\* ------------------------------------------------------------------------
\* C3: of the withdraw, withdraw-with-proof, cancel and rescue calls on one
\* escrow at most one succeeds: a call succeeds only on an active record,
\* leaves it terminal and moves amount + security_deposit out of the factory
\* once; no call other than a create touches a terminal record; and on a
\* terminal record every such call, by any caller with any input, fails with
\* the already-withdrawn or already-cancelled error.
\* ------------------------------------------------------------------------
C3_AtMostOneSettlement ==
    /\ []SettleCallsRejected
    /\ [][/\ last'.op \in SrcSettleOps =>
                SettlesOnce(srcEscrows[last'.escrow], srcEscrows'[last'.escrow])
          /\ last'.op \in DstSettleOps =>
                SettlesOnce(dstEscrows[last'.escrow], dstEscrows'[last'.escrow])
          /\ last'.op \notin CreateOps =>
                \A a \in Addresses :
                    /\ Terminal(srcEscrows[a]) => srcEscrows'[a] = srcEscrows[a]
                    /\ Terminal(dstEscrows[a]) => dstEscrows'[a] = dstEscrows[a]]_vars

\* a withdrawal has just succeeded and its repetition is rejected, although
\* the window is still open and other escrow funds are in the factory
C3_Witness ==
    /\ last.op = "withdraw_src_escrow"
    /\ withdraw_src_escrow_error(last.caller, last.escrow, last.secret) = "Already withdrawn"
    /\ Active(dstEscrows[Factory])
    /\ balances[Factory] >= LastSrc.amount + LastSrc.security_deposit

\* the checks that precede the secret check pass for this caller now
SrcMayWithdrawAt(caller, escrow_data) ==
    /\ Active(escrow_data)
    /\ escrow_data.withdrawal_start <= now
    /\ now < escrow_data.cancellation_start
    /\ now < escrow_data.public_withdrawal_start => caller = escrow_data.recipient

DstMayWithdrawAt(caller, escrow_data) ==
    /\ Active(escrow_data)
    /\ escrow_data.withdrawal_start <= now
    /\ now < escrow_data.cancellation_start
    /\ now < escrow_data.public_withdrawal_start =>
           caller \in {escrow_data.recipient, escrow_data.creator}

InWithdrawalWindow(escrow_data) ==
    /\ escrow_data.withdrawal_start <= now
    /\ now < escrow_data.cancellation_start

PrivateRefusal == {"Private window only", "Use withdraw() for complete fills"}

\* ------------------------------------------------------------------------
\* C6: for a source escrow, in [withdrawal_start, public_withdrawal_start) a
\* withdrawal by a caller other than the recipient fails as unauthorized
\* even with the correct secret; in [public_withdrawal_start,
\* cancellation_start) any caller with the correct secret succeeds.
\* ------------------------------------------------------------------------
C6_SrcPrivateWindow ==
    /\ (last.op \in SrcWithdrawOps /\ now < LastSrc.public_withdrawal_start) =>
           last.caller = LastSrc.recipient
    /\ \A a \in EscrowRefs, caller \in Parties, secret \in Secrets :
          LET r == srcEscrows[a]
          IN  (Active(r) /\ InWithdrawalWindow(r)) =>
                /\ (now < r.public_withdrawal_start /\ caller # r.recipient) =>
                      /\ withdraw_src_escrow_error(caller, a, secret) = "Private window only"
                      /\ \A proof \in Proofs :
                            withdraw_src_escrow_with_proof_error(caller, a, secret, proof)
                                \in PrivateRefusal
                /\ now >= r.public_withdrawal_start =>
                      /\ Sha256(secret) = r.hashed_secret =>
                             withdraw_src_escrow_error(caller, a, secret) = "ok"
                      /\ \A proof \in Proofs :
                            (/\ r.is_partial_fill
                             /\ verify_merkle_proof(proof, r.hashed_secret,
                                    generate_leaf(r.part_index, Sha256(secret)))) =>
                                withdraw_src_escrow_with_proof_error(caller, a, secret, proof) = "ok"

\* a source escrow in its private window: the secret that lets the recipient
\* withdraw is refused from the record's creator and from a third party
C6_Witness ==
    /\ Active(srcEscrows[Factory])
    /\ \E secret \in Secrets :
          /\ withdraw_src_escrow_error(srcEscrows[Factory].recipient, Factory, secret) = "ok"
          /\ withdraw_src_escrow_error(srcEscrows[Factory].creator, Factory, secret)
                 = "Private window only"
          /\ withdraw_src_escrow_error("other", Factory, secret) = "Private window only"

\* ------------------------------------------------------------------------
\* C7: for a destination escrow, in [withdrawal_start,
\* public_withdrawal_start) a withdrawal succeeds only when the caller is the
\* record's recipient or creator; any other caller fails as unauthorized.
\* ------------------------------------------------------------------------
C7_DstPrivateWindow ==
    /\ (last.op \in DstWithdrawOps /\ now < LastDst.public_withdrawal_start) =>
           last.caller \in {LastDst.recipient, LastDst.creator}
    /\ \A a \in EscrowRefs, caller \in Parties, secret \in Secrets :
          LET r == dstEscrows[a]
          IN  (/\ Active(r) /\ InWithdrawalWindow(r)
               /\ now < r.public_withdrawal_start
               /\ caller \notin {r.recipient, r.creator}) =>
                /\ withdraw_dst_escrow_error(caller, a, secret) = "Private window only"
                /\ \A proof \in Proofs :
                      withdraw_dst_escrow_with_proof_error(caller, a, secret, proof)
                          \in PrivateRefusal

\* the creator, who is not the recipient, has withdrawn in the private window
C7_Witness ==
    /\ last.op = "withdraw_dst_escrow"
    /\ now < LastDst.public_withdrawal_start
    /\ last.caller = LastDst.creator
    /\ last.caller # LastDst.recipient

\* ------------------------------------------------------------------------
\* C8: on every successful withdrawal (plain or with proof, source or
\* destination) the principal amount is transferred to the record's
\* recipient, whoever the caller is.
\* ------------------------------------------------------------------------
C8_PrincipalToRecipient ==
    /\ last.op \in SrcWithdrawOps =>
           last.transfers[1] = [from |-> Factory, to |-> LastSrc.recipient,
                                amount |-> LastSrc.amount]
    /\ last.op \in DstWithdrawOps =>
           last.transfers[1] = [from |-> Factory, to |-> LastDst.recipient,
                                amount |-> LastDst.amount]

\* ------------------------------------------------------------------------
\* C9: on every successful withdrawal (plain or with proof, source or
\* destination) the record's security deposit is transferred to the caller
\* that executed the withdrawal.
\* ------------------------------------------------------------------------
C9_DepositToCaller ==
    /\ last.op \in SrcWithdrawOps =>
          /\ Len(last.transfers) = 2
          /\ last.transfers[2] = [from |-> Factory, to |-> last.caller,
                                  amount |-> LastSrc.security_deposit]
    /\ last.op \in DstWithdrawOps =>
          /\ Len(last.transfers) = 2
          /\ last.transfers[2] = [from |-> Factory, to |-> last.caller,
                                  amount |-> LastDst.security_deposit]

\* a destination withdrawal executed by a caller who is not the recipient
C9_Witness ==
    /\ last.op \in DstWithdrawOps
    /\ last.caller # LastDst.recipient
    /\ LastDst.security_deposit = DEPOSIT_AMOUNT

\* window arguments around the accepted ones: each neighbour one later, equal
\* or one earlier
Steps == {-1, 0, 1}

\* every create call with misordered window arguments is rejected
WindowsRejected ==
    \A ws \in {1, MaxT}, g1 \in Steps, g2 \in Steps, g3 \in Steps :
        LET pws == ws + g1
            cs == pws + g2
            pcs == cs + g3
        IN  (pws >= 0 /\ cs >= 0 /\ pcs >= 0) =>
              \A creator \in Creators, buyer \in Buyers, amount \in 1..MaxAmount :
                /\ ~(ws < pws /\ pws < cs /\ cs < pcs) =>
                       \A h \in FullLocks, recipient \in SrcRecipients :
                           create_src_escrow_error(creator, h, recipient, buyer,
                               amount, ws, pws, cs, pcs) = "Invalid time windows"
                /\ ~(ws < pws /\ pws < cs) =>
                      /\ \A h \in FullLocks, recipient \in DstRecipients :
                            create_dst_escrow_error(creator, h, recipient,
                                amount, ws, pws, cs) = "Invalid time windows"
                      /\ \A part \in PartChoices, recipient \in SrcRecipients :
                            create_src_escrow_partial_error(creator, part[1],
                                recipient, buyer, amount, ws, pws, cs,
                                part[2], part[3]) = "Invalid time windows"
                      /\ \A part \in PartChoices, recipient \in DstRecipients :
                            create_dst_escrow_partial_error(creator, part[1],
                                recipient, amount, ws, pws, cs,
                                part[2], part[3]) = "Invalid time windows"

\* ------------------------------------------------------------------------
\* C10: every stored record has withdrawal_start < public_withdrawal_start <
\* cancellation_start (< public_cancellation_start for source records), and
\* a create call whose window arguments violate the ordering fails.
\* ------------------------------------------------------------------------
C10_WindowsOrdered ==
    /\ \A a \in Addresses :
          /\ Exists(srcEscrows[a]) =>
                /\ srcEscrows[a].withdrawal_start < srcEscrows[a].public_withdrawal_start
                /\ srcEscrows[a].public_withdrawal_start < srcEscrows[a].cancellation_start
                /\ srcEscrows[a].cancellation_start < srcEscrows[a].public_cancellation_start
          /\ Exists(dstEscrows[a]) =>
                /\ dstEscrows[a].withdrawal_start < dstEscrows[a].public_withdrawal_start
                /\ dstEscrows[a].public_withdrawal_start < dstEscrows[a].cancellation_start
    /\ WindowsRejected

\* a source record stored by create_src_escrow next to a destination record
C10_Witness ==
    /\ last.op = "create_src_escrow"
    /\ Exists(srcEscrows[Factory])
    /\ srcEscrows[Factory].public_cancellation_start
           = srcEscrows[Factory].cancellation_start + 1
    /\ Exists(dstEscrows[Factory])

\* ------------------------------------------------------------------------
\* Vocabulary of the cancel and rescue properties
\* ------------------------------------------------------------------------
CancelOps == {"cancel_src_escrow", "cancel_dst_escrow"}

\* the two token legs of an invocation that pays principal and deposit
Payout(principal_to, deposit_to, escrow_data) ==
    << [from |-> Factory, to |-> principal_to, amount |-> escrow_data.amount],
       [from |-> Factory, to |-> deposit_to, amount |-> escrow_data.security_deposit] >>

\* the step changes the token balances by exactly this payout
BalancesMovedBy(payout) ==
    \A p \in Addresses :
        balances'[p] - balances[p] =
            (IF payout[1].to = p THEN payout[1].amount ELSE 0)
          + (IF payout[2].to = p THEN payout[2].amount ELSE 0)
          - (IF p = Factory THEN payout[1].amount + payout[2].amount ELSE 0)

\* ------------------------------------------------------------------------
\* C11: a cancel (source or destination) returns only when the caller is the
\* record's creator, the record was active and the time is at or after
\* cancellation_start; before cancellation_start and for every other caller
\* it fails; every withdraw on a cancelled record fails as already cancelled.
\* ------------------------------------------------------------------------
C11_CancelPreconditions ==
    /\ last.op = "cancel_src_escrow" =>
          /\ last.caller = LastSrc.creator
          /\ now >= LastSrc.cancellation_start
          /\ LastSrc.cancelled /\ ~LastSrc.funds_withdrawn
    /\ last.op = "cancel_dst_escrow" =>
          /\ last.caller = LastDst.creator
          /\ now >= LastDst.cancellation_start
          /\ LastDst.cancelled /\ ~LastDst.funds_withdrawn
    /\ \A a \in EscrowRefs, caller \in Parties :
          /\ Exists(srcEscrows[a]) =>
                LET r == srcEscrows[a]
                IN  /\ (now < r.cancellation_start \/ caller # r.creator \/ ~Active(r)) =>
                           cancel_src_escrow_error(caller, a) # "ok"
                    /\ (Active(r) /\ now < r.cancellation_start) =>
                           cancel_src_escrow_error(caller, a) = "Cancellation not started"
                    /\ r.cancelled =>
                           \A secret \in Secrets :
                              /\ withdraw_src_escrow_error(caller, a, secret) = "Already cancelled"
                              /\ \A proof \in Proofs :
                                    withdraw_src_escrow_with_proof_error(caller, a, secret, proof)
                                        = "Already cancelled"
          /\ Exists(dstEscrows[a]) =>
                LET r == dstEscrows[a]
                IN  /\ (now < r.cancellation_start \/ caller # r.creator \/ ~Active(r)) =>
                           cancel_dst_escrow_error(caller, a) # "ok"
                    /\ (Active(r) /\ now < r.cancellation_start) =>
                           cancel_dst_escrow_error(caller, a) = "Cancellation not started"
                    /\ r.cancelled =>
                           \A secret \in Secrets :
                              /\ withdraw_dst_escrow_error(caller, a, secret) = "Already cancelled"
                              /\ \A proof \in Proofs :
                                    withdraw_dst_escrow_with_proof_error(caller, a, secret, proof)
                                        = "Already cancelled"

\* the creator has just cancelled a destination escrow; the recipient's
\* withdrawal with the right secret is now refused as already cancelled
C11_Witness ==
    /\ last.op = "cancel_dst_escrow"
    /\ \E secret \in Secrets :
          /\ Sha256(secret) = LastDst.hashed_secret
          /\ withdraw_dst_escrow_error(LastDst.recipient, last.escrow, secret)
                 = "Already cancelled"

\* ------------------------------------------------------------------------
\* C12: a successful cancel sets cancelled and transfers exactly amount plus
\* security_deposit from the factory to the record's creator, and nothing to
\* any other party.
\* ------------------------------------------------------------------------
C12_CancelRefundsCreator ==
    [][/\ last'.op = "cancel_src_escrow" =>
            LET r == srcEscrows'[last'.escrow]
            IN  /\ r.cancelled
                /\ r = [srcEscrows[last'.escrow] EXCEPT !.cancelled = TRUE]
                /\ last'.transfers = Payout(r.creator, r.creator, r)
                /\ BalancesMovedBy(Payout(r.creator, r.creator, r))
       /\ last'.op = "cancel_dst_escrow" =>
            LET r == dstEscrows'[last'.escrow]
            IN  /\ r.cancelled
                /\ r = [dstEscrows[last'.escrow] EXCEPT !.cancelled = TRUE]
                /\ last'.transfers = Payout(r.creator, r.creator, r)
                /\ BalancesMovedBy(Payout(r.creator, r.creator, r))]_vars

\* a source escrow has just been cancelled: its creator is not its recipient
C12_Witness ==
    /\ last.op = "cancel_src_escrow"
    /\ LastSrc.creator # LastSrc.recipient
    /\ LastSrc.amount > 0

\* ------------------------------------------------------------------------
\* C13: cancel of a source escrow fails for every caller, the creator
\* included, at or after public_cancellation_start; it returns only at a
\* time t with cancellation_start <= t < public_cancellation_start.
\* ------------------------------------------------------------------------
C13_SrcCancelWindow ==
    /\ last.op = "cancel_src_escrow" =>
          /\ LastSrc.cancellation_start <= now
          /\ now < LastSrc.public_cancellation_start
    /\ \A a \in EscrowRefs, caller \in Parties :
          (Exists(srcEscrows[a]) /\ now >= srcEscrows[a].public_cancellation_start) =>
              /\ cancel_src_escrow_error(caller, a) # "ok"
              /\ Active(srcEscrows[a]) =>
                     cancel_src_escrow_error(caller, a) = "Private cancellation ended"

\* an active source escrow at its public_cancellation_start: its creator's
\* cancel is refused
C13_Witness ==
    /\ Active(srcEscrows[Factory])
    /\ now = srcEscrows[Factory].public_cancellation_start
    /\ cancel_src_escrow_error(srcEscrows[Factory].creator, Factory)
           = "Private cancellation ended"

\* ------------------------------------------------------------------------
\* C14: cancel of a source escrow is restricted to the creator during
\* [cancellation_start, public_cancellation_start) and is public from
\* public_cancellation_start: from then on a cancel call on an active source
\* escrow succeeds and refunds the creator.
\* ------------------------------------------------------------------------
C14_SrcCancelPublicFromBoundary ==
    \A a \in EscrowRefs, caller \in Parties :
        Active(srcEscrows[a]) =>
            LET r == srcEscrows[a]
            IN  /\ (r.cancellation_start <= now /\ now < r.public_cancellation_start
                        /\ caller # r.creator) =>
                       cancel_src_escrow_error(caller, a) # "ok"
                /\ now >= r.public_cancellation_start =>
                       cancel_src_escrow_error(caller, a) = "ok"

\* ------------------------------------------------------------------------
\* C15: rescue of a source escrow fails before public_cancellation_start +
\* RESCUE_DELAY and for every caller other than the recipient; from that
\* boundary on a rescue by the recipient on an active record succeeds, sets
\* funds_withdrawn, and pays the principal to the recipient and the security
\* deposit to the creator.
\* ------------------------------------------------------------------------
C15_SrcRescue ==
    /\ [][last'.op = "rescue_src_escrow" =>
            LET r == srcEscrows'[last'.escrow]
            IN  /\ now' >= r.public_cancellation_start + RESCUE_DELAY
                /\ last'.caller = r.recipient
                /\ r = [srcEscrows[last'.escrow] EXCEPT !.funds_withdrawn = TRUE]
                /\ Active(srcEscrows[last'.escrow])
                /\ last'.transfers = Payout(r.recipient, r.creator, r)
                /\ BalancesMovedBy(Payout(r.recipient, r.creator, r))]_vars
    /\ [](\A a \in EscrowRefs, caller \in Parties :
            Exists(srcEscrows[a]) =>
               LET r == srcEscrows[a]
               IN  /\ (now < r.public_cancellation_start + RESCUE_DELAY
                          \/ caller # r.recipient) =>
                          rescue_src_escrow_error(caller, a) # "ok"
                   /\ (Active(r) /\ now < r.public_cancellation_start + RESCUE_DELAY) =>
                          rescue_src_escrow_error(caller, a) = "Rescue not available"
                   /\ (Active(r) /\ now >= r.public_cancellation_start + RESCUE_DELAY
                          /\ caller = r.recipient) =>
                          rescue_src_escrow_error(caller, a) = "ok")

\* the recipient has just rescued a source escrow whose creator is another
\* party
C15_Witness ==
    /\ last.op = "rescue_src_escrow"
    /\ last.caller = LastSrc.recipient
    /\ LastSrc.creator # LastSrc.recipient
    /\ LastSrc.funds_withdrawn

\* ------------------------------------------------------------------------
\* C16: rescue of a destination escrow returns only when the record was
\* active, the time is at or after cancellation_start + RESCUE_DELAY and the
\* caller is the creator; it sets funds_withdrawn and pays both the principal
\* and the security deposit to the creator.
\* ------------------------------------------------------------------------
C16_DstRescue ==
    /\ [][last'.op = "rescue_dst_escrow" =>
            LET r == dstEscrows'[last'.escrow]
            IN  /\ now' >= r.cancellation_start + RESCUE_DELAY
                /\ last'.caller = r.creator
                /\ Active(dstEscrows[last'.escrow])
                /\ r = [dstEscrows[last'.escrow] EXCEPT !.funds_withdrawn = TRUE]
                /\ last'.transfers = Payout(r.creator, r.creator, r)
                /\ BalancesMovedBy(Payout(r.creator, r.creator, r))]_vars
    /\ [](\A a \in EscrowRefs, caller \in Parties :
            Exists(dstEscrows[a]) =>
               LET r == dstEscrows[a]
               IN  (\/ ~Active(r)
                    \/ now < r.cancellation_start + RESCUE_DELAY
                    \/ caller # r.creator) =>
                       rescue_dst_escrow_error(caller, a) # "ok")

\* the creator has just rescued a destination escrow that nobody withdrew or
\* cancelled
C16_Witness ==
    /\ last.op = "rescue_dst_escrow"
    /\ last.caller = LastDst.creator
    /\ LastDst.funds_withdrawn /\ ~LastDst.cancelled

\* ------------------------------------------------------------------------
\* Vocabulary of the atomicity and order book properties
\* ------------------------------------------------------------------------
SrcCreateOps == {"create_src_escrow", "create_src_escrow_partial", "fill_order"}

\* what the factory holds for a record
Held(escrow_data) == escrow_data.amount + escrow_data.security_deposit

\* the step stores a new escrow record
Created == escrowCounter' # escrowCounter

\* the step settles (withdraws, cancels or rescues) a record
Settled ==
    \E a \in Addresses :
        \/ Active(srcEscrows[a]) /\ Terminal(srcEscrows'[a])
        \/ Active(dstEscrows[a]) /\ Terminal(dstEscrows'[a])

RefillErrors(order_hash, part_index) ==
    {fill_order_error(order_hash, maker, recipient, amount, part[1], ws, ws + g1,
                      part_index, part[3]) :
        maker \in Buyers, recipient \in SrcRecipients, amount \in Amounts,
        part \in LopPartChoices, ws \in WindowStarts, g1 \in Gaps}

\* the same, for the calls whose arguments pass fill_order's input validation
ValidRefillErrors(order_hash, part_index) ==
    {fill_order_error(order_hash, maker, recipient, amount, part[1], ws, ws + g1,
                      part_index, part[3]) :
        maker \in Buyers, recipient \in SrcRecipients,
        amount \in {a \in Amounts : a > 0},
        part \in {c \in LopPartChoices : part_index < c[3]},
        ws \in WindowStarts, g1 \in Gaps}

\* ------------------------------------------------------------------------
\* C18 (as stated): once a pair (order_hash, part_index) is filled, every
\* later fill_order for the pair, whatever its other arguments, fails with
\* the already-filled error.
\* ------------------------------------------------------------------------
C18_RefillAlwaysAlreadyFilled ==
    \A pair \in partsFilled :
        RefillErrors(pair[1], pair[2]) = {"Part already filled"}

\* ------------------------------------------------------------------------
\* C18 (amended): fill_order succeeds at most once for every pair
\* (order_hash, part_index): the order holds at most one fill per part, the
\* set of filled pairs only grows (cancel_order does not free a part), every
\* returned fill_order adds a pair that was not filled, and every later
\* fill_order for a filled pair fails, also after cancel_order: with the
\* already-filled error when its arguments pass the input validation, which
\* comes first.
\* ------------------------------------------------------------------------
C18_FilledAtMostOnce ==
    /\ [](\A order_hash \in OrderHashes, part_index \in PartIndices :
            /\ Cardinality(PartPositions(order_hash, part_index)) <= 1
            /\ (<<order_hash, part_index>> \in partsFilled) <=>
                   (PartPositions(order_hash, part_index) # {})
            /\ <<order_hash, part_index>> \in partsFilled =>
                   /\ "ok" \notin RefillErrors(order_hash, part_index)
                   /\ ValidRefillErrors(order_hash, part_index) = {"Part already filled"})
    /\ [][/\ partsFilled \subseteq partsFilled'
          /\ last'.op = "fill_order" =>
                \E pair \in partsFilled' \ partsFilled :
                    /\ partsFilled' = partsFilled \cup {pair}
                    /\ Len(filledOrders'[pair[1]]) = Len(filledOrders[pair[1]]) + 1
                    /\ filledOrders'[pair[1]][Len(filledOrders'[pair[1]])].part_index = pair[2]]_vars

\* a part was filled and then cancelled through cancel_order; a fill_order for
\* it with valid arguments is still refused as already filled
C18_Witness ==
    \E pair \in partsFilled :
        /\ ~filledOrders[pair[1]][FirstPartPosition(pair[1], pair[2])].is_active
        /\ last.op = "cancel_order"
        /\ "Part already filled" \in ValidRefillErrors(pair[1], pair[2])

\* the errors of the fill_order calls for a maker whose amount exceeds the
\* maker's current allowance in the order book
ExcessFillErrors(maker) ==
    {fill_order_error(order_hash, maker, recipient, amount, part[1], ws, ws + g1,
                      part[2], part[3]) :
        order_hash \in OrderHashes, recipient \in SrcRecipients,
        amount \in {a \in Amounts : a > lop_allowance(maker, Lop)},
        part \in LopPartChoices, ws \in WindowStarts, g1 \in Gaps}

\* the same, for the calls that pass the checks fill_order makes before the
\* allowance check: valid inputs and a part that is not filled
CheckedExcessFillErrors(maker) ==
    {fill_order_error(order_hash, maker, recipient, amount, part[1], ws, ws + g1,
                      part[2], part[3]) :
        order_hash \in OrderHashes, recipient \in SrcRecipients,
        amount \in {a \in Amounts : a > 0 /\ a > lop_allowance(maker, Lop)},
        part \in {c \in LopPartChoices : c[2] < c[3]},
        ws \in WindowStarts, g1 \in Gaps} \ {"Part already filled"}

\* approve stores exactly its argument for the caller; a returned fill_order
\* takes exactly its amount off the maker's allowance; nothing else changes
\* an allowance of the order book
LopAllowanceArithmetic ==
    /\ last'.op = "lop_approve" =>
           lopAllowances' = [lopAllowances EXCEPT ![last'.caller] = last'.amount]
    /\ last'.op = "fill_order" =>
           \E order_hash \in OrderHashes :
               /\ Len(filledOrders'[order_hash]) = Len(filledOrders[order_hash]) + 1
               /\ LET maker == filledOrders'[order_hash][Len(filledOrders'[order_hash])].maker
                  IN  lopAllowances' =
                          [lopAllowances EXCEPT ![maker] = @ - last'.amount]
    /\ last'.op \notin {"lop_approve", "fill_order"} =>
           lopAllowances' = lopAllowances

C20_AllowancesNonNegative ==
    \A owner \in Parties :
        /\ allowance(owner, Factory) >= 0
        /\ lop_allowance(owner, Lop) >= 0

\* the order book's entry of a filled part
PartEntry(order_hash, part_index) ==
    filledOrders[order_hash][FirstPartPosition(order_hash, part_index)]

\* the entries of the order book whose is_active flag is set / cleared
ActiveParts ==
    {pair \in partsFilled : PartEntry(pair[1], pair[2]).is_active}

\* ------------------------------------------------------------------------
\* C21: cancel_order fails for a part that was never filled ("Part not
\* filled"), for a part whose is_active is already false ("Part already
\* cancelled") and for a caller that is not the part's recorded maker
\* ("Only maker can cancel"); is_active goes from true to false only in a
\* returned cancel_order, for exactly one part and with the maker as caller,
\* and never back, so cancel_order succeeds at most once per part.
\* ------------------------------------------------------------------------
C21_CancelOrderFailures ==
    /\ [](\A caller \in Parties, order_hash \in OrderHashes, part_index \in PartIndices :
            LET pair == <<order_hash, part_index>>
                err == cancel_order_error(caller, order_hash, part_index)
            IN  /\ pair \notin partsFilled => err = "Part not filled"
                /\ pair \in partsFilled \ ActiveParts => err = "Part already cancelled"
                /\ (pair \in ActiveParts /\ caller # PartEntry(order_hash, part_index).maker)
                       => err = "Only maker can cancel")
    /\ [][/\ ActiveParts' \cap partsFilled \subseteq ActiveParts
          /\ ActiveParts' # ActiveParts \cup (partsFilled' \ partsFilled) =>
                /\ last'.op = "cancel_order"
                /\ \E pair \in ActiveParts :
                      /\ ActiveParts' = ActiveParts \ {pair}
                      /\ last'.caller = PartEntry(pair[1], pair[2]).maker
          /\ last'.op = "cancel_order" => ActiveParts' # ActiveParts]_vars

\* a part was cancelled through cancel_order, by its maker; a second
\* cancel_order for it is refused as already cancelled, one for a part that
\* was never filled as not filled
C21_Witness ==
    /\ last.op = "cancel_order"
    /\ \E pair \in partsFilled \ ActiveParts :
          cancel_order_error(PartEntry(pair[1], pair[2]).maker, pair[1], pair[2])
              = "Part already cancelled"
    /\ \E order_hash \in OrderHashes, part_index \in PartIndices :
          <<order_hash, part_index>> \notin partsFilled

\* ------------------------------------------------------------------------
\* C22: a returned cancel_order(order_hash, part_index) cancels exactly the
\* escrow that the fill of that part created: the record it cancels is the
\* one of that part (its part_index, total_parts, recipient and maker are
\* those of the fill), it ends with cancelled = true, and its principal goes
\* back to the part's maker.
\* ------------------------------------------------------------------------
C22_CancelOrderCancelsOwnEscrow ==
    [][last'.op = "cancel_order" =>
          \E pair \in ActiveParts \ ActiveParts' :
              LET order == PartEntry(pair[1], pair[2])
                  escrow_data == srcEscrows[order.escrow_address]
              IN  /\ escrow_data.part_index = order.part_index
                  /\ escrow_data.total_parts = order.total_parts
                  /\ escrow_data.recipient = order.recipient
                  /\ escrow_data.creator = order.maker
                  /\ srcEscrows'[order.escrow_address] =
                         [escrow_data EXCEPT !.cancelled = TRUE]
                  /\ balances'[order.maker] >=
                         balances[order.maker] + escrow_data.amount]_vars

\* ------------------------------------------------------------------------
\* C23: every returned creation yields a reference of its own: the
\* reference was not returned by an earlier creation, and the stored record
\* of every escrow created before is left as it was.
\* ------------------------------------------------------------------------
C23_CreationKeepsEarlierRecords ==
    [][Created =>
          /\ last'.escrow \notin escrowExists
          /\ \A a \in escrowExists :
                /\ srcEscrows'[a] = srcEscrows[a]
                /\ dstEscrows'[a] = dstEscrows[a]]_vars

\* the mutating entry points of the resolver contract
ResolverOps ==
    {"execute_cross_chain_swap", "complete_cross_chain_swap",
     "withdraw_from_source_escrow", "withdraw_from_destination_escrow",
     "create_destination_escrow", "cancel_order"}

\* ------------------------------------------------------------------------
\* C24: every mutating entry point of the resolver contract fails, changing
\* nothing, when the caller is not the configured owner: a call of one of
\* them that returns was made by the owner.
\* ------------------------------------------------------------------------
C24_OnlyOwnerCallsReturn ==
    [][last'.op \in ResolverOps => last'.caller = ResolverOwner]_vars

ResolverSrcWithdrawOps == {"complete_cross_chain_swap", "withdraw_from_source_escrow"}

ResolverDstWithdrawOps == {"withdraw_from_destination_escrow"}

\* the outcome the claimed choice of path gives for a record that exists
ClaimedPathError(escrow_data, merkle_proof, proof_path_error, plain_path_error) ==
    IF escrow_data.is_partial_fill
    THEN IF merkle_proof = <<>>
         THEN "Merkle proof required for partial fills"
         ELSE proof_path_error
    ELSE plain_path_error

C26_MerkleRoundTrip ==
    merkleCheck.called =>
        LET layer == TreeLeaves(merkleLeaves)
            k == merkleCheck.index + 1
        IN  merkleCheck.verified <=>
                /\ k \in 1..Len(merkleLeaves)
                /\ merkleCheck.secret_hash = merkleLeaves[k]
                /\ merkleCheck.proof = TreeProof(layer, k)

\* in a tree of two leaves the proof generated for the second leaf, which is
\* the larger digest of its pair, has verified
C26_Witness ==
    /\ Len(merkleLeaves) = 2
    /\ merkleCheck.called
    /\ merkleCheck.index = 1
    /\ merkleCheck.proof # <<>>
    /\ merkleCheck.verified

\* the proof verifies, against the record's hashed_secret as root, the leaf
\* of the given part index and SHA-256 of the secret
ProofOpens(escrow_data, part_index, secret, proof) ==
    verify_merkle_proof(proof, escrow_data.hashed_secret,
                        generate_leaf(part_index, Sha256(secret)))

\* a secret and proof that belong to another part index of the record's root
ForeignPair(escrow_data, secret, proof) ==
    \E part_index \in PartIndices \ {escrow_data.part_index} :
        ProofOpens(escrow_data, part_index, secret, proof)

CompleteFill(escrow_data) == Exists(escrow_data) /\ ~escrow_data.is_partial_fill

SegmentCounts == 0..MaxFills

\* the number of successful fills of the order: one entry each
Fills(order_hash) == Len(filledOrders[order_hash])

\* a fill of the order's part 0 is on record
PartZeroFilled(order_hash) ==
    \E i \in 1..Len(filledOrders[order_hash]) :
        filledOrders[order_hash][i].part_index = 0

\* the result claimed for get_remaining_segments(order_hash, total_parts)
ClaimedSegments(order_hash, total_parts) ==
    IF total_parts > 1 THEN total_parts - Fills(order_hash)
    ELSE IF PartZeroFilled(order_hash) THEN 0 ELSE 1

\* ------------------------------------------------------------------------
\* C29: for total_parts = N > 1, get_remaining_segments(order_hash, N)
\* returns N minus the number of successful fills of the order, never a
\* negative number and never a failure; for N <= 1 it returns 0 when part 0
\* is filled and 1 otherwise; cancel_order does not change the result.
\* ------------------------------------------------------------------------
C29_RemainingSegments ==
    /\ [](\A order_hash \in OrderHashes, total_parts \in SegmentCounts :
            /\ get_remaining_segments(order_hash, total_parts)
                   = {Returned(ClaimedSegments(order_hash, total_parts))}
            /\ ClaimedSegments(order_hash, total_parts) >= 0)
    /\ [][last'.op = "cancel_order" =>
              \A order_hash \in OrderHashes, total_parts \in SegmentCounts :
                  get_remaining_segments(order_hash, total_parts)'
                      = get_remaining_segments(order_hash, total_parts)]_vars

\* a partial-fill source escrow for part part_index of the root
\* hashed_secret has been created: the part is marked used, or its record is
\* in the store
SrcPartCreated(hashed_secret, part_index) ==
    \/ <<hashed_secret, part_index>> \in partialFillsUsed
    \/ \E a \in Addresses :
          /\ Exists(srcEscrows[a]) /\ srcEscrows[a].is_partial_fill
          /\ srcEscrows[a].hashed_secret = hashed_secret
          /\ srcEscrows[a].part_index = part_index

\* a partial-fill destination escrow for that part has been created
DstPartCreated(hashed_secret, part_index) ==
    \E a \in Addresses :
        /\ Exists(dstEscrows[a]) /\ dstEscrows[a].is_partial_fill
        /\ dstEscrows[a].hashed_secret = hashed_secret
        /\ dstEscrows[a].part_index = part_index

\* ------------------------------------------------------------------------
\* C30: for a Merkle root h and a part index i at most one partial-fill
\* escrow creation (total_parts > 1) succeeds in the factory, whoever calls:
\* once a source (destination) escrow for (h, i) has been created, every
\* further partial source (destination) creation with the same (h, i)
\* fails, with the part-already-used error when its amount and windows are
\* valid, and no creation stores a second record for (h, i).
\* ------------------------------------------------------------------------
C30_PartCreatedAtMostOnce ==
    /\ [](\A creator \in Creators, part \in PartChoices, buyer \in Buyers,
             amount \in Amounts, ws \in WindowStarts :
            /\ (part[3] > 1 /\ SrcPartCreated(part[1], part[2])) =>
                  create_src_escrow_partial_error(creator, part[1], "resolver",
                      buyer, amount, ws, ws + 1, ws + 2, part[2], part[3])
                      \in {"Invalid amount", "Part already used"}
            /\ (part[3] > 1 /\ DstPartCreated(part[1], part[2])) =>
                  create_dst_escrow_partial_error(creator, part[1], "maker",
                      amount, ws, ws + 1, ws + 2, part[2], part[3])
                      \in {"Invalid amount", "Part already used"})
    /\ [][/\ (last'.op = "create_src_escrow_partial"
                /\ srcEscrows'[last'.escrow].is_partial_fill) =>
                 ~SrcPartCreated(srcEscrows'[last'.escrow].hashed_secret,
                                 srcEscrows'[last'.escrow].part_index)
          /\ (last'.op = "create_dst_escrow_partial"
                /\ dstEscrows'[last'.escrow].is_partial_fill) =>
                 ~DstPartCreated(dstEscrows'[last'.escrow].hashed_secret,
                                 dstEscrows'[last'.escrow].part_index)]_vars

\* <<part_index, total_parts>> of the fills tried below
PartShapes == {<<0, 0>>, <<0, 1>>, <<1, 1>>, <<0, 2>>, <<1, 2>>, <<2, 2>>}

\* the error of a fill_order with this amount and part by the maker
FillAttempt(order_hash, token_amount, hashed_secret, part_index, total_parts) ==
    fill_order_error(order_hash, "maker", "resolver", token_amount,
                     hashed_secret, 0, 1, part_index, total_parts)

\* ------------------------------------------------------------------------
\* C31: fill_order fails, and so changes no allowance, bookkeeping or escrow
\* state, when total_parts = 0, when part_index >= total_parts or when
\* token_amount <= 0 (with the order book's error for that input); a
\* fill_order that returns was called with token_amount > 0; and every
\* FilledOrder entry on record has part_index < total_parts.
\* ------------------------------------------------------------------------
C31_FillInputsValidated ==
    /\ [](\A order_hash \in OrderHashes, token_amount \in ApproveAmounts,
             hashed_secret \in HashLocks, shape \in PartShapes :
            LET error == FillAttempt(order_hash, token_amount, hashed_secret,
                                     shape[1], shape[2])
            IN  /\ shape[2] = 0 => error = "Total parts must be > 0"
                /\ (shape[2] > 0 /\ shape[1] >= shape[2]) =>
                       error = "Invalid part index"
                /\ (shape[1] < shape[2] /\ token_amount <= 0) =>
                       error = "Token amount must be > 0")
    /\ [](\A order_hash \in OrderHashes :
            \A i \in 1..Len(filledOrders[order_hash]) :
                filledOrders[order_hash][i].part_index
                    < filledOrders[order_hash][i].total_parts)
    /\ [][last'.op = "fill_order" => last'.amount > 0]_vars

\* the maker's approval covers a fill: part 0 of 1 would be filled now, the
\* same fill as part 1 of 1, as part 0 of 0 or with amount 0 is refused
C31_Witness ==
    \E order_hash \in OrderHashes :
        /\ FillAttempt(order_hash, 1, Sha256(1), 0, 1) = "ok"
        /\ FillAttempt(order_hash, 1, Sha256(1), 1, 1) = "Invalid part index"
        /\ FillAttempt(order_hash, 1, Sha256(1), 0, 0) = "Total parts must be > 0"
        /\ FillAttempt(order_hash, 0, Sha256(1), 0, 1) = "Token amount must be > 0"

\* ------------------------------------------------------------------------
\* C32: create_destination_escrow returns the reference of the destination
\* escrow created by that very call, the last entry of the caller's escrow
\* index, which the call has appended; through get_dst_escrow the reference
\* resolves to an active record holding the hashed_secret, recipient, amount
\* and windows passed to the call.
\* ------------------------------------------------------------------------
C32_CreatedReferenceReturned ==
    [][last'.op = "create_destination_escrow" =>
       \A caller \in Parties, part \in PartChoices, recipient \in DstRecipients,
          amount \in Amounts, ws \in WindowStarts, g1 \in Gaps, g2 \in Gaps :
          create_destination_escrow(caller, part[1], recipient, amount,
              ws, ws + g1, ws + g1 + g2, part[2], part[3]) =>
            LET escrow_address == last'.escrow
                escrow_data == dstEscrows'[escrow_address]
            IN  /\ get_user_escrows(caller)' = Append(get_user_escrows(caller), escrow_address)
                /\ Active(escrow_data)
                /\ escrow_data.creator = caller
                /\ escrow_data.hashed_secret = part[1]
                /\ escrow_data.recipient = recipient
                /\ escrow_data.amount = amount
                /\ escrow_data.withdrawal_start = ws
                /\ escrow_data.public_withdrawal_start = ws + g1
                /\ escrow_data.cancellation_start = ws + g1 + g2
                /\ escrow_data.part_index = part[2]
                /\ escrow_data.total_parts = part[3]]_vars

\* the resolver's second destination escrow: the reference returned is the
\* one its first creation returned, and it resolves to the new record
C32_Witness ==
    /\ last.op = "create_destination_escrow"
    /\ Len(get_user_escrows(last.caller)) = 2
    /\ get_user_escrows(last.caller)[1] = last.escrow
    /\ Active(get_dst_escrow(last.escrow))

\* public_withdrawal_start of a direct fill_order with withdrawal_start ws
\* that the window validation has to refuse
RefusedPublicStarts(ws) == (0..ws) \cup {ws + 86400, ws + 86401}

\* ------------------------------------------------------------------------
\* C33: every source escrow created through fill_order has
\* cancellation_start = withdrawal_start + 86400 and
\* public_cancellation_start = withdrawal_start + 90000, and one created
\* through execute_cross_chain_swap has in addition public_withdrawal_start
\* = withdrawal_start + 1800, so that no execute_cross_chain_swap is
\* refused by the window validation; a direct fill_order with
\* public_withdrawal_start <= withdrawal_start or public_withdrawal_start
\* >= withdrawal_start + 86400 fails.
\* ------------------------------------------------------------------------
C33_DerivedWindows ==
    /\ [](\A order_hash \in OrderHashes, maker \in Buyers, amount \in Amounts,
             part \in LopPartChoices, ws \in WindowStarts :
            /\ \A caller \in Parties :
                  execute_cross_chain_swap_error(caller, order_hash, maker,
                      "resolver", amount, part[1], ws, part[2], part[3])
                      # "Invalid time windows"
            /\ \A pws \in RefusedPublicStarts(ws) :
                  fill_order_error(order_hash, maker, "resolver", amount,
                      part[1], ws, pws, part[2], part[3]) # "ok")
    /\ [][/\ last'.op \in {"fill_order", "execute_cross_chain_swap"} =>
                LET escrow_data == srcEscrows'[last'.escrow]
                IN  /\ escrow_data.cancellation_start
                           = escrow_data.withdrawal_start + 86400
                    /\ escrow_data.public_cancellation_start
                           = escrow_data.withdrawal_start + 90000
          /\ last'.op = "execute_cross_chain_swap" =>
                srcEscrows'[last'.escrow].public_withdrawal_start
                    = srcEscrows'[last'.escrow].withdrawal_start + 1800]_vars

\* the resolver has filled an order: the escrow has the derived windows
C33_Witness ==
    /\ last.op = "execute_cross_chain_swap"
    /\ Active(LastSrc)
    /\ LastSrc.public_withdrawal_start = LastSrc.withdrawal_start + 1800
    /\ LastSrc.cancellation_start = LastSrc.withdrawal_start + 86400

\* how often the order is in the user's filled-order list
Listed(user, order_hash) ==
    Cardinality({i \in 1..Len(userFilledOrders[user]) :
                    userFilledOrders[user][i] = order_hash})

\* ------------------------------------------------------------------------
\* C34: an order_hash is appended to a user's filled-order list exactly once
\* over the whole history, on the first successful fill of the order and
\* under that fill's maker: an unfilled order is in no list, a filled one is
\* once in the list of the maker of its first fill and in no other, however
\* many fills by whichever maker follow; the lists only grow at their end,
\* and only by a fill_order; a cancel_order leaves them as they are.
\* ------------------------------------------------------------------------
C34_OrderIndexedOnce ==
    /\ [](\A order_hash \in OrderHashes, user \in Parties :
            Listed(user, order_hash) =
                IF /\ Fills(order_hash) > 0
                   /\ filledOrders[order_hash][1].maker = user
                THEN 1 ELSE 0)
    /\ [][/\ \A user \in Parties :
                \/ userFilledOrders'[user] = userFilledOrders[user]
                \/ /\ last'.op = "fill_order"
                   /\ \E order_hash \in OrderHashes :
                         /\ Fills(order_hash) = 0
                         /\ userFilledOrders'[user] =
                                Append(userFilledOrders[user], order_hash)
          /\ last'.op = "cancel_order" => userFilledOrders' = userFilledOrders]_vars

\* an order filled twice, by two makers, one of the parts cancelled since: it
\* is listed once, under the maker of the first fill
C34_Witness ==
    \E order_hash \in OrderHashes :
        /\ Fills(order_hash) >= 2
        /\ filledOrders[order_hash][1].maker # filledOrders[order_hash][2].maker
        /\ \E i \in 1..Fills(order_hash) : ~filledOrders[order_hash][i].is_active
        /\ Listed(filledOrders[order_hash][1].maker, order_hash) = 1
        /\ Listed(filledOrders[order_hash][2].maker, order_hash) = 0

\* ------------------------------------------------------------------------
\* C35: a source-escrow creation that pulls principal from a buyer succeeds
\* only when the buyer's recorded allowance toward the component called (the
\* factory for a direct create, the order book for fill_order) was at least
\* the amount before the call, and it reduces that allowance by exactly the
\* amount.
\* ------------------------------------------------------------------------
C35_PullNeedsAllowance ==
    [][LET escrow_data == srcEscrows'[last'.escrow]
           buyer == escrow_data.creator
       IN  /\ last'.op \in {"create_src_escrow", "create_src_escrow_partial"} =>
                 /\ allowances[buyer] >= escrow_data.amount
                 /\ allowances'[buyer] = allowances[buyer] - escrow_data.amount
           /\ last'.op = "fill_order" =>
                 /\ lopAllowances[buyer] >= escrow_data.amount
                 /\ lopAllowances'[buyer] = lopAllowances[buyer] - escrow_data.amount]_vars

\* what the factory owes for a record: amount + security_deposit while the
\* record is active
Owed(escrow_data) == IF Active(escrow_data) THEN Held(escrow_data) ELSE 0

RECURSIVE OwedOver(_)
OwedOver(refs) ==
    IF refs = {} THEN 0
    ELSE LET a == CHOOSE x \in refs : TRUE
         IN  Owed(srcEscrows[a]) + Owed(dstEscrows[a]) + OwedOver(refs \ {a})

\* ------------------------------------------------------------------------
\* C36: in every reachable state the token balance of the factory equals the
\* sum of amount + security_deposit over the stored source and destination
\* records that are active.
\* ------------------------------------------------------------------------
C36_FactoryHoldsWhatItOwes == balances[Factory] = OwedOver(Addresses)

\* the only escrow ever created is a source escrow, and it has been cancelled
CreatedThenCancelled ==
    /\ escrowCounter = 1
    /\ \E a \in Addresses : Exists(srcEscrows[a]) /\ srcEscrows[a].cancelled

\* ------------------------------------------------------------------------
\* C37: creating a source escrow and then cancelling it restores every
\* party's token balance to its value before the creation: once the only
\* escrow created is a cancelled source escrow, the buyer, the creator that
\* paid the security deposit and everyone else hold what they held at the
\* start, and the factory holds nothing.
\* ------------------------------------------------------------------------
C37_CreateCancelRestoresBalances ==
    CreatedThenCancelled =>
        /\ \A p \in Parties : balances[p] = InitBalance
        /\ balances[Factory] = 0

\* some caller can withdraw from the source (destination) escrow now
SrcWithdrawable(a) ==
    \E caller \in Parties, secret \in Secrets :
        \/ withdraw_src_escrow_error(caller, a, secret) = "ok"
        \/ \E proof \in Proofs :
              withdraw_src_escrow_with_proof_error(caller, a, secret, proof) = "ok"

DstWithdrawable(a) ==
    \E caller \in Parties, secret \in Secrets :
        \/ withdraw_dst_escrow_error(caller, a, secret) = "ok"
        \/ \E proof \in Proofs :
              withdraw_dst_escrow_with_proof_error(caller, a, secret, proof) = "ok"

\* ------------------------------------------------------------------------
\* C38: for every escrow, at no time are a withdrawal and a cancellation
\* both permitted: a withdrawal succeeds only at t < cancellation_start, a
\* cancellation only at t >= cancellation_start; and a rescue of a source
\* escrow succeeds only strictly after every instant at which a cancellation
\* of it can succeed.
\* ------------------------------------------------------------------------
C38_WithdrawCancelExclusive ==
    /\ last.op \in SrcWithdrawOps => now < LastSrc.cancellation_start
    /\ last.op \in DstWithdrawOps => now < LastDst.cancellation_start
    /\ last.op = "cancel_src_escrow" => now >= LastSrc.cancellation_start
    /\ last.op = "cancel_dst_escrow" => now >= LastDst.cancellation_start
    /\ \A a \in EscrowRefs, caller \in Parties :
          /\ SrcWithdrawable(a) => cancel_src_escrow_error(caller, a) # "ok"
          /\ DstWithdrawable(a) => cancel_dst_escrow_error(caller, a) # "ok"
          /\ rescue_src_escrow_error(caller, a) = "ok" =>
                \A t \in TimePoints, canceller \in Parties :
                    SrcCancelError(t, canceller, srcEscrows[a]) = "ok" => t < now

\* a source escrow at its cancellation_start: its creator can cancel it, and
\* the recipient's withdrawal with the right secret is refused as too late
C38_Witness ==
    \E a \in EscrowRefs, secret \in Secrets :
        /\ Active(srcEscrows[a])
        /\ Sha256(secret) = srcEscrows[a].hashed_secret
        /\ cancel_src_escrow_error(srcEscrows[a].creator, a) = "ok"
        /\ withdraw_src_escrow_error(srcEscrows[a].recipient, a, secret)
               = "Withdrawal ended"

\* once the clock shows t, the rescue of the record by the party entitled to
\* it goes through: the record is active, t is past the rescue boundary and
\* the factory holds the funds
SrcRescuableAt(t, escrow_data) ==
    OrElse(EscrowStateError(escrow_data),
    OrElse(SrcRescueError(t, escrow_data.recipient, escrow_data),
    TransferError(SrcRescueTransfers(Token, escrow_data)))) = "ok"

DstRescuableAt(t, escrow_data) ==
    OrElse(EscrowStateError(escrow_data),
    OrElse(DstRescueError(t, escrow_data.creator, escrow_data),
    TransferError(CreatorRefundTransfers(Token, escrow_data)))) = "ok"

\* no withdrawal and no cancellation of the source escrow succeeds now
SrcOnlyRescueLeft(a) ==
    /\ ~SrcWithdrawable(a)
    /\ \A caller \in Parties : cancel_src_escrow_error(caller, a) # "ok"

\* ------------------------------------------------------------------------
\* C39: from every state in which an escrow record is active a state in
\* which it is terminal stays reachable as time advances: once the clock is
\* past the rescue boundary the rescue by the recipient (source) or the
\* creator (destination) goes through.  For an active source escrow at a
\* time t with public_cancellation_start <= t < public_cancellation_start +
\* RESCUE_DELAY no withdrawal, cancellation or rescue by any caller
\* succeeds, and from public_cancellation_start + RESCUE_DELAY on the only
\* one that succeeds is the rescue by the recipient.
\* ------------------------------------------------------------------------
C39_ActiveEscrowCanEnd ==
    \A a \in EscrowRefs :
        /\ Active(dstEscrows[a]) =>
              DstRescuableAt(dstEscrows[a].cancellation_start + RESCUE_DELAY,
                             dstEscrows[a])
        /\ Active(srcEscrows[a]) =>
              LET escrow_data == srcEscrows[a]
                  rescue_start == escrow_data.public_cancellation_start + RESCUE_DELAY
              IN  /\ SrcRescuableAt(rescue_start, escrow_data)
                  /\ (escrow_data.public_cancellation_start <= now /\ now < rescue_start) =>
                        /\ SrcOnlyRescueLeft(a)
                        /\ \A caller \in Parties :
                              rescue_src_escrow_error(caller, a) # "ok"
                  /\ now >= rescue_start =>
                        /\ SrcOnlyRescueLeft(a)
                        /\ \A caller \in Parties :
                              rescue_src_escrow_error(caller, a) = "ok"
                                  <=> caller = escrow_data.recipient

\* an active source escrow between public_cancellation_start and the rescue
\* boundary: its creator's cancellation is refused as too late, the
\* recipient's rescue as too early
C39_Witness ==
    \E a \in EscrowRefs :
        /\ Active(srcEscrows[a])
        /\ srcEscrows[a].public_cancellation_start < now
        /\ cancel_src_escrow_error(srcEscrows[a].creator, a) = "Private cancellation ended"
        /\ rescue_src_escrow_error(srcEscrows[a].recipient, a) = "Rescue not available"

\* the part indices of the order marked as filled
MarkedParts(order_hash) ==
    {part \in partsFilled : part[1] = order_hash}

\* ------------------------------------------------------------------------
\* C40: for every order hash, in every reachable state, the filled-segments
\* count equals the length of the order's list of filled parts and the
\* number of part indices marked filled, and no two entries of the list
\* have the same part_index; cancel_order changes none of the three.
\* ------------------------------------------------------------------------
C40_FillBookkeepingAgrees ==
    /\ [](\A order_hash \in OrderHashes :
            /\ filledSegmentsCount[order_hash] = Len(filledOrders[order_hash])
            /\ filledSegmentsCount[order_hash] = Cardinality(MarkedParts(order_hash))
            /\ \A i, j \in 1..Len(filledOrders[order_hash]) :
                  filledOrders[order_hash][i].part_index =
                      filledOrders[order_hash][j].part_index => i = j)
    /\ [][last'.op = "cancel_order" =>
            /\ filledSegmentsCount' = filledSegmentsCount
            /\ partsFilled' = partsFilled
            /\ \A order_hash \in OrderHashes :
                  Len(filledOrders'[order_hash]) = Len(filledOrders[order_hash])]_vars

\* an order with three parts filled, one of them cancelled since
C40_Witness ==
    \E order_hash \in OrderHashes :
        /\ filledSegmentsCount[order_hash] = 3
        /\ last.op = "cancel_order"
        /\ \E i \in 1..Len(filledOrders[order_hash]) :
              ~filledOrders[order_hash][i].is_active
====
